---- MODULE Spec2Model ----
(***************************************************************************)
(* Route Efficiency Analyzer: the scoring engine, the ranker and the two   *)
(* swap orchestrators (backend RouteAnalyzer, standalone JupiterSmartSwap).*)
(*                                                                         *)
(* Numbers.  Python floats are modelled as exact fixed-point rationals:    *)
(* the value v is the integer v * ONE.  ONE is divisible by every          *)
(* denominator the bounded inputs produce, so each \div below is exact.    *)
(* A score is kept in tenths of that unit (score * 10 * ONE), which makes  *)
(* the weights 0.1 .. 0.6 the integers 1 .. 6.                             *)
(*                                                                         *)
(* Rounding.  Where a claim turns on the rounding of float arithmetic the   *)
(* operators named float_... are used instead: a binary floating-point     *)
(* format with round-to-nearest-even after every operation, as binary64,   *)
(* but with a significand of SignificandBits bits; a value v is the        *)
(* integer v * 2^FractionBits.                                             *)
(*                                                                         *)
(* Optional values.  Optional[T] is a sequence of length <= 1:             *)
(* None is << >>, the value v is << v >>.  A key a dict lacks reads as     *)
(* None, as dict.get does.                                                 *)
(***************************************************************************)
EXTENDS Integers, Sequences, FiniteSets, TLC

\* ------------------------------------------------------------------ bounds
MaxSteps == 2       \* longest step list / largest hop count of an input
MaxRoutes == 3      \* longest candidate list of an input
MaxRequests == 2    \* requests the API serves at the same time

\* --------------------------------------------------------------- constants
ONE == 6000         \* fixed-point unit: the float 1.0
BPS_DENOMINATOR == 10000
COMPUTE_UNIT_DIVISOR == 1000
AMOUNT_DIVISOR == 1000000
PCT_DIVISOR == 100

\* ----------------------------------------------------------------- helpers
Max(a, b) == IF a >= b THEN a ELSE b
Min(a, b) == IF a <= b THEN a ELSE b

None == << >>
Some(v) == << v >>
IsNone(o) == Len(o) = 0
Get(o) == o[1]

Range(s) == { s[i] : i \in 1..Len(s) }

\* the sequences over S of length at most n
RECURSIVE SeqsUpTo(_, _)
SeqsUpTo(S, n) ==
    IF n = 0 THEN { << >> }
    ELSE LET shorter == SeqsUpTo(S, n - 1)
         IN shorter \cup { Append(s, x) : s \in { t \in shorter : Len(t) = n - 1 }, x \in S }

\* len(set(platforms))
DistinctCount(platforms) == Cardinality(Range(platforms))

\* ----------------------------------------------- backend/utils/scoring.py
\* The denominators of the three quotients; a zero here is Python's
\* ZeroDivisionError.
hop_den_unguarded(hops) == hops
hop_den(hops) == Max(hops, 1)
time_den(time_to_route) == Max(time_to_route, 1)
\* max(compute_units / 1000, 1), kept times 1000 as an integer
compute_den(compute_units) == Max(compute_units, COMPUTE_UNIT_DIVISOR)

hop_score(hops) == ONE \div hop_den(hops)
\* a score that grows with the price impact
price_impact_score_rewards_impact(price_impact) == Min(price_impact, ONE)
price_impact_score(price_impact) == ONE - Min(price_impact, ONE)
platform_diversity(platforms, hops) ==
    Min((DistinctCount(platforms) * ONE) \div hop_den(hops), ONE)
slippage_score(slippage_bps) == ONE - (slippage_bps * ONE) \div BPS_DENOMINATOR
time_score(time_to_route) == ONE \div time_den(time_to_route)
compute_score(compute_units) ==
    (ONE * COMPUTE_UNIT_DIVISOR) \div compute_den(compute_units)
\* out_amount / 1_000_000; amounts are multiples of 1000 raw units
amount_score(out_amount) ==
    ((out_amount \div 1000) * ONE) \div (AMOUNT_DIVISOR \div 1000)

calculate_efficiency_score_swapped_weights(hops, price_impact, platforms, slippage_bps) ==
    hop_score(hops) * 4
    + price_impact_score(price_impact) * 3
    + platform_diversity(platforms, hops) * 2
    + slippage_score(slippage_bps) * 1
calculate_efficiency_score(hops, price_impact, platforms, slippage_bps) ==
    hop_score(hops) * 3
    + price_impact_score(price_impact) * 4
    + platform_diversity(platforms, hops) * 2
    + slippage_score(slippage_bps) * 1

calculate_speed_score(hops, time_to_route, compute_units) ==
    hop_score(hops) * 5 + time_score(time_to_route) * 3
    + compute_score(compute_units) * 2

calculate_cost_score(price_impact, compute_units, out_amount) ==
    price_impact_score(price_impact) * 6 + compute_score(compute_units) * 3
    + amount_score(out_amount) * 1

\* a is the record of the eight arguments
get_score_by_criteria_no_default(a) ==
    IF a.criteria = "efficiency"
    THEN calculate_efficiency_score(a.hops, a.price_impact, a.platforms, a.slippage_bps)
    ELSE IF a.criteria = "speed"
    THEN calculate_speed_score(a.hops, a.time_to_route, a.compute_units)
    ELSE calculate_cost_score(a.price_impact, a.compute_units, a.out_amount)
get_score_by_criteria(a) ==
    IF a.criteria = "efficiency"
    THEN calculate_efficiency_score(a.hops, a.price_impact, a.platforms, a.slippage_bps)
    ELSE IF a.criteria = "speed"
    THEN calculate_speed_score(a.hops, a.time_to_route, a.compute_units)
    ELSE IF a.criteria = "cost"
    THEN calculate_cost_score(a.price_impact, a.compute_units, a.out_amount)
    ELSE calculate_efficiency_score(a.hops, a.price_impact, a.platforms, a.slippage_bps)

\* TRUE when the call divides by zero (ZeroDivisionError); every policy
\* evaluates only its own quotients.
score_raises(a) ==
    IF a.criteria = "speed"
    THEN hop_den(a.hops) = 0 \/ time_den(a.time_to_route) = 0
         \/ compute_den(a.compute_units) = 0
    ELSE IF a.criteria = "cost"
    THEN compute_den(a.compute_units) = 0
    ELSE hop_den(a.hops) = 0

\* ------------------------------------------------------------ the ranker
\* Python's list.sort / sorted with key = efficiency_score, reverse = True:
\* descending and stable (equal keys keep their input order).  Written as
\* an insertion sort: each element goes before the first one that scores
\* strictly less.
RECURSIVE InsertBy(_, _, _, _)
InsertBy(s, x, i, strict) ==
    IF i > Len(s) THEN Append(s, x)
    ELSE IF (IF strict THEN s[i].efficiency_score < x.efficiency_score
                       ELSE s[i].efficiency_score <= x.efficiency_score)
    THEN SubSeq(s, 1, i - 1) \o << x >> \o SubSeq(s, i, Len(s))
    ELSE InsertBy(s, x, i + 1, strict)

RECURSIVE SortBy(_, _)
SortBy(s, strict) ==
    IF Len(s) = 0 THEN << >>
    ELSE InsertBy(SortBy(SubSeq(s, 1, Len(s) - 1), strict), s[Len(s)], 1, strict)

RECURSIVE Reverse(_)
Reverse(s) == IF Len(s) = 0 THEN << >> ELSE Append(Reverse(Tail(s)), Head(s))

\* equal scores swap places
SortDescendingUnstable(s) == SortBy(s, FALSE)
\* reverse = True forgotten
SortAscending(s) == Reverse(SortBy(s, TRUE))
SortDescending(s) == SortBy(s, TRUE)

\* s[:n]
SliceTo(s, n) ==
    IF n >= 0 THEN SubSeq(s, 1, Min(n, Len(s)))
    ELSE SubSeq(s, 1, Max(Len(s) + n, 0))

\* route_efficiency_analyzer/analyzer.py
rank_routes(analyzed_routes) == SortDescending(analyzed_routes)
get_top_routes(analyzed_routes, top_n) == SliceTo(rank_routes(analyzed_routes), top_n)

\* ------------------------------------- scoring.py in float arithmetic
SignificandBits == 8     \* binary64 has 53
FractionBits == 12       \* the finest value is 2^-12

RECURSIVE Pow2(_)
Pow2(k) == IF k <= 0 THEN 1 ELSE 2 * Pow2(k - 1)
RECURSIVE BitLength(_)
BitLength(n) == IF n = 0 THEN 0 ELSE 1 + BitLength(n \div 2)
FLOAT_ONE == Pow2(FractionBits)

\* n in units of 2^-u (u >= FractionBits), rounded to the nearest value
\* of the format, ties to the even significand, in units of 2^-FractionBits
float_round(n, u) ==
    LET q == Pow2(Max(u - FractionBits, BitLength(n) - SignificandBits))
        r == n \div q
        rem == n % q
        up == IF 2 * rem > q \/ (2 * rem = q /\ r % 2 = 1) THEN 1 ELSE 0
    IN ((r + up) * q) \div Pow2(u - FractionBits)
\* a / b, correctly rounded: two guard bits and a sticky bit
float_div(a, b) ==
    LET u == FractionBits + 2
        n == (a * Pow2(u)) \div b
        sticky == IF (a * Pow2(u)) % b = 0 THEN 0 ELSE 1
    IN float_round(2 * n + sticky, u + 1)
float_mul(a, b) == float_round(a * b, 2 * FractionBits)
float_add(a, b) == float_round(a + b, FractionBits)
float_sub(a, b) == float_round(a - b, FractionBits)

\* calculate_efficiency_score, each operation rounded, the sum taken from
\* left to right; price_impact is a value of the format
float_calculate_efficiency_score(hops, price_impact, platforms, slippage_bps) ==
    LET hop_score_f == float_div(1, Max(hops, 1))
        price_impact_score_f == float_sub(FLOAT_ONE, Min(price_impact, FLOAT_ONE))
        platform_diversity_f ==
            Min(float_div(Cardinality(Range(platforms)), Max(hops, 1)), FLOAT_ONE)
        slippage_score_f == float_sub(FLOAT_ONE, float_div(slippage_bps, BPS_DENOMINATOR))
    IN float_add(float_add(float_add(float_mul(hop_score_f, float_div(3, 10)),
                                     float_mul(price_impact_score_f, float_div(4, 10))),
                           float_mul(platform_diversity_f, float_div(2, 10))),
                 float_mul(slippage_score_f, float_div(1, 10)))

\* route_analyzer.py lines 61-75 for criteria Efficiency: every route gets
\* its score, then the stable descending sort
float_rank(routes, slippage_bps) ==
    SortDescending([ i \in 1..Len(routes) |->
        [ routes[i] EXCEPT !.efficiency_score =
            float_calculate_efficiency_score(routes[i].hops, routes[i].price_impact,
                                             routes[i].platforms, slippage_bps) ] ])

\* --------------------------------------------- the upstream quote answer
\* A raw candidate of the quote body.  impact is the raw price-impact
\* number (priceImpactPct for the backend, priceImpact for JupiterSmartSwap)
\* in fixed point; steps is the list of the steps, each one its platform
\* label (routePlan[..].swapInfo.amm.label / swapSteps[..].platform) or
\* None when the step carries none.  Raw takes the labels of a candidate
\* whose steps all have one.
\* shape tells which key of the candidate, if any, is not as expected and
\* how: "missing", "null", or "text" (a string that is not a number); the
\* field "route" stands for the candidate itself, which is then no dict
WellFormed == [ field |-> "none", as |-> "ok" ]
Raw(id, out, steps, impact, cu, time) ==
    [ routeId |-> id, outAmount |-> out,
      steps |-> [ i \in 1..Len(steps) |-> Some(steps[i]) ], impact |-> impact,
      computeUnits |-> cu, timeTaken |-> time, shape |-> WellFormed ]
\* the candidate with one key malformed
Malformed(route, field, as) == [ route EXCEPT !.shape = [ field |-> field, as |-> as ] ]
\* the candidate with its i-th step stripped of its label
Unlabelled(route, i) == [ route EXCEPT !.steps[i] = None ]

\* get_mock_quote_response: the two demo candidates ("0.1" and "0.2" percent)
MockRoute1 == Raw("route_1", 1000000, << "Raydium" >>, 600, 5000, 150)
MockRoute2 == Raw("route_2", 980000, << "Orca" >>, 1200, 3000, 100)

\* A JSON body: data is the candidate list (key "data" for the backend, key
\* "routes" for JupiterSmartSwap), absent, null or a list; other tells
\* whether the body has any other key.
Body(tag, list, other) == [ data |-> [tag |-> tag, v |-> list], other |-> other ]
get_mock_quote_response == Body("list", << MockRoute1, MockRoute2 >>, FALSE)

\* bool(d) of a dict: it has a key
Truthy(body) == body.data.tag # "absent" \/ body.other

\* --------------------------------- backend/services/jupiter_api.py parsing
RouteAnalysis(id, out, hops, platforms, impact, score, cu, time) ==
    [ route_id |-> id, out_amount |-> out, hops |-> hops, platforms |-> platforms,
      price_impact |-> impact, efficiency_score |-> score, compute_units |-> cu,
      time_to_route |-> time ]

\* one iteration of the loop of parse_routes (gas_estimate and total_fee,
\* which nothing reads, are left out)
HasLabel(step) == ~IsNone(step)
\* lines 110-114: the labels of the steps that have "swapInfo" and "amm",
\* in order; the other steps are passed over
step_labels(steps) ==
    LET labelled == SelectSeq(steps, HasLabel)
    IN [ i \in 1..Len(labelled) |-> Get(labelled[i]) ]
\* route.get(field, 0): the number, or the default 0 when the key is
\* missing
get_number(route, field, value) ==
    IF route.shape.field = field /\ route.shape.as = "missing" THEN 0 ELSE value
\* route.get("routePlan", []) / "routePlan" in route
get_route_plan(route) ==
    IF route.shape.field = "routePlan" /\ route.shape.as = "missing"
    THEN << >> ELSE route.steps
\* int(None), float(None) and iterating None are a TypeError, int("abc")
\* and float("abc") a ValueError; "routePlan" in None is a TypeError
parse_route_raises(route) == route.shape.as \in { "null", "text" }
parse_route(route) ==
    RouteAnalysis(route.routeId,
                  get_number(route, "outAmount", route.outAmount),
                  Len(get_route_plan(route)),
                  step_labels(get_route_plan(route)),
                  get_number(route, "priceImpactPct", route.impact) \div PCT_DIVISOR, 0,
                  get_number(route, "computeUnitPriceMicroLamports", route.computeUnits),
                  get_number(route, "timeTaken", route.timeTaken))

\* iterating a null "data" is a TypeError; so is a candidate that raises
parse_routes_raises(quote_response) ==
    \/ quote_response.data.tag = "null"
    \/ /\ quote_response.data.tag = "list"
       /\ \E i \in 1..Len(quote_response.data.v) :
              parse_route_raises(quote_response.data.v[i])
\* str(e) of the exception parse_routes raises
parse_routes_error(quote_response) ==
    IF quote_response.data.tag = "null" THEN "'NoneType' object is not iterable"
    ELSE "<conversion error>"
\* a body without "data" read as one bare candidate
parse_routes_wraps_body(quote_response) ==
    IF quote_response.data.tag = "absent"
    THEN << RouteAnalysis("", 0, 0, << >>, 0, 0, 0, 0) >>
    ELSE [ i \in 1..Len(quote_response.data.v) |-> parse_route(quote_response.data.v[i]) ]
parse_routes(quote_response) ==
    IF quote_response.data.tag = "absent" THEN << >>
    ELSE [ i \in 1..Len(quote_response.data.v) |-> parse_route(quote_response.data.v[i]) ]

\* --------------------------------- the external API as the clients see it
\* An HTTP outcome: the request raised (connection error, timeout), or it
\* was answered with a status and a JSON body.
Raised == [kind |-> "exception", status |-> 0, body |-> << >>]
Answered(status, body) == [kind |-> "answer", status |-> status, body |-> << body >>]

\* JupiterAPIClient.get_quote / get_swap_transaction: the body on status
\* 200, None on any other status and on any exception
get_quote_ignores_status(outcome) ==
    IF outcome.kind = "answer" THEN outcome.body ELSE None
get_quote(outcome) ==
    IF outcome.kind = "answer" /\ outcome.status = 200 THEN outcome.body ELSE None
get_swap_transaction(outcome) ==
    IF outcome.kind = "answer" /\ outcome.status = 200 THEN outcome.body ELSE None

\* ------------------------------ backend/services/route_analyzer.py
Merge(r, d) == [ k \in DOMAIN d |-> IF k \in DOMAIN r THEN r[k] ELSE d[k] ]

\* the dataclass SwapResponse with its defaults; the count a message
\* interpolates is total_routes_found and is not repeated in the text
SwapResponse(r) ==
    Merge(r, [ success |-> FALSE, message |-> "", mode |-> "", total_routes_found |-> 0,
               best_route |-> None, all_routes |-> None, selected_route |-> None,
               swap_result |-> None, error |-> None, demo_mode |-> FALSE ])

\* not request.user_public_key: None or the empty string
key_missing_only_none(request) == request.user_public_key = None
key_missing(request) == request.user_public_key \in { None, Some("") }

ScoreArgsOf(request, route) ==
    [ criteria |-> request.auto_select_criteria, hops |-> route.hops,
      price_impact |-> route.price_impact, platforms |-> route.platforms,
      slippage_bps |-> request.slippage_bps, time_to_route |-> route.time_to_route,
      compute_units |-> route.compute_units, out_amount |-> route.out_amount ]

\* every route gets the score of the first one
score_routes_of_first(request, routes) ==
    [ i \in 1..Len(routes) |->
        [ routes[i] EXCEPT !.efficiency_score =
            get_score_by_criteria(ScoreArgsOf(request, routes[1])) ] ]
\* lines 62-72: every route gets its score
score_routes(request, routes) ==
    [ i \in 1..Len(routes) |->
        [ routes[i] EXCEPT !.efficiency_score =
            get_score_by_criteria(ScoreArgsOf(request, routes[i])) ] ]
score_routes_raises(request, routes) ==
    \E i \in 1..Len(routes) : score_raises(ScoreArgsOf(request, routes[i]))

\* lines 155-162
exception_response(request, text) ==
    SwapResponse([ success |-> FALSE, message |-> "Error during route analysis",
                   mode |-> request.mode, total_routes_found |-> 0,
                   error |-> Some(text) ])

\* lines 40-47
fetch_failed_response(request) ==
    SwapResponse([ success |-> FALSE, message |-> "No routes found or API error",
                   mode |-> request.mode, total_routes_found |-> 0,
                   error |-> Some("Failed to fetch routes from Jupiter API") ])

\* lines 52-59
no_routes_response(request) ==
    SwapResponse([ success |-> FALSE, message |-> "No valid routes found",
                   mode |-> request.mode, total_routes_found |-> 0,
                   error |-> Some("No routes available for this swap") ])

\* lines 82-90 and 145-153
analysis_response(request, routes, demo_mode, message) ==
    SwapResponse([ success |-> TRUE, message |-> message, mode |-> request.mode,
                   total_routes_found |-> Len(routes), best_route |-> Some(routes[1]),
                   all_routes |-> Some(routes), demo_mode |-> demo_mode ])

\* lines 94-102
missing_key_response(request, routes) ==
    SwapResponse([ success |-> FALSE, message |-> "User public key required for auto-swap",
                   mode |-> request.mode, total_routes_found |-> Len(routes),
                   best_route |-> Some(routes[1]), all_routes |-> Some(routes),
                   error |-> Some("Missing user public key") ])

\* the failure of the swap request reported without an error text
swap_failed_response_without_error(request, routes) ==
    SwapResponse([ success |-> FALSE, message |-> "Failed to create swap transaction",
                   mode |-> request.mode, total_routes_found |-> Len(routes),
                   best_route |-> Some(routes[1]), all_routes |-> Some(routes) ])

\* lines 120-128
swap_failed_response(request, routes) ==
    SwapResponse([ success |-> FALSE, message |-> "Failed to create swap transaction",
                   mode |-> request.mode, total_routes_found |-> Len(routes),
                   best_route |-> Some(routes[1]), all_routes |-> Some(routes),
                   error |-> Some("Swap transaction creation failed") ])

\* the selected route is the last of the ranking instead of the first
swap_done_response_selects_last(request, routes, swap_result, demo_mode) ==
    SwapResponse([ success |-> TRUE,
                   message |-> "Auto-swap executed using best route. Found routes.",
                   mode |-> request.mode, total_routes_found |-> Len(routes),
                   best_route |-> Some(routes[1]), all_routes |-> Some(routes),
                   selected_route |-> Some(routes[Len(routes)]),
                   swap_result |-> Some(swap_result), demo_mode |-> demo_mode ])

\* lines 132-142
swap_done_response(request, routes, swap_result, demo_mode) ==
    SwapResponse([ success |-> TRUE,
                   message |-> "Auto-swap executed using best route. Found routes.",
                   mode |-> request.mode, total_routes_found |-> Len(routes),
                   best_route |-> Some(routes[1]), all_routes |-> Some(routes),
                   selected_route |-> Some(routes[1]), swap_result |-> Some(swap_result),
                   demo_mode |-> demo_mode ])

\* lines 106-111
demo_swap_result(best_route) ==
    [ success |-> TRUE, txid |-> "demo_transaction_123",
      route_used |-> best_route.route_id, amount_out |-> best_route.out_amount ]

\* manual selection treated as an auto-swap when a key is present
dispatch_manual_executes(request, routes, demo_mode) ==
    IF request.mode = "analyze_only"
    THEN [ pc |-> "done", routes |-> routes,
           response |-> Some(analysis_response(request, routes, demo_mode,
                                               "Found routes. Analysis complete.")) ]
    ELSE IF key_missing(request)
    THEN [ pc |-> "done", routes |-> routes,
           response |-> Some(missing_key_response(request, routes)) ]
    ELSE IF demo_mode
    THEN [ pc |-> "done", routes |-> routes,
           response |-> Some(swap_done_response(request, routes,
                                demo_swap_result(routes[1]), demo_mode)) ]
    ELSE [ pc |-> "executing", routes |-> routes, response |-> None ]

\* lines 81-153, once the routes are ranked: the response, or (live
\* auto-swap with a key) the suspension in the swap call
dispatch(request, routes, demo_mode) ==
    IF request.mode = "analyze_only"
    THEN [ pc |-> "done", routes |-> routes,
           response |-> Some(analysis_response(request, routes, demo_mode,
                                               "Found routes. Analysis complete.")) ]
    ELSE IF request.mode = "auto_swap"
    THEN IF key_missing(request)
         THEN [ pc |-> "done", routes |-> routes,
                response |-> Some(missing_key_response(request, routes)) ]
         ELSE IF demo_mode
         THEN [ pc |-> "done", routes |-> routes,
                response |-> Some(swap_done_response(request, routes,
                                     demo_swap_result(routes[1]), demo_mode)) ]
         ELSE [ pc |-> "executing", routes |-> routes, response |-> None ]
    ELSE [ pc |-> "done", routes |-> routes,
           response |-> Some(analysis_response(request, routes, demo_mode,
                                               "Found routes for manual selection.")) ]

\* without the except clause of lines 155-162: an exception of parsing
\* or scoring ends the call with no response
analyze_routes_after_quote_uncaught(request, demo_mode, quote_response) ==
    LET finish(r) == [ pc |-> "done", routes |-> << >>, response |-> Some(r) ]
        body == Get(quote_response)
        routes == parse_routes(body)
    IN IF IsNone(quote_response) \/ ~Truthy(body)
       THEN finish(fetch_failed_response(request))
       ELSE IF parse_routes_raises(body)
       THEN [ pc |-> "done", routes |-> << >>, response |-> None ]
       ELSE IF Len(routes) = 0
       THEN finish(no_routes_response(request))
       ELSE IF score_routes_raises(request, routes)
       THEN [ pc |-> "done", routes |-> << >>, response |-> None ]
       ELSE dispatch(request, SortDescending(score_routes(request, routes)), demo_mode)

\* RouteAnalyzer.analyze_routes from the quote (lines 40-153) up to its
\* return or its suspension in the swap call
analyze_routes_after_quote(request, demo_mode, quote_response) ==
    LET finish(r) == [ pc |-> "done", routes |-> << >>, response |-> Some(r) ]
        body == Get(quote_response)
        routes == parse_routes(body)
    IN IF IsNone(quote_response) \/ ~Truthy(body)
       THEN finish(fetch_failed_response(request))
       ELSE IF parse_routes_raises(body)
       THEN finish(exception_response(request, parse_routes_error(body)))
       ELSE IF Len(routes) = 0
       THEN finish(no_routes_response(request))
       ELSE IF score_routes_raises(request, routes)
       THEN finish(exception_response(request, "float division by zero"))
       ELSE dispatch(request, SortDescending(score_routes(request, routes)), demo_mode)

\* dict truthiness of the swap answer: a JSON object is a function of its keys
analyze_routes_after_swap(request, routes, swap_transaction) ==
    IF IsNone(swap_transaction) \/ DOMAIN Get(swap_transaction) = {}
    THEN swap_failed_response(request, routes)
    ELSE swap_done_response(request, routes, Get(swap_transaction), FALSE)

\* the call continues as if nothing had happened
cancel_outcome_continues(at, swallowed, request, routes) ==
    [ pc |-> at, response |-> None, outcome |-> None ]

\* the task is cancelled while suspended in the quote or the swap request
\* (at): CancelledError is raised at the await. Where it is a
\* BaseException it passes every except Exception and leaves the call
\* without a response; where it is an Exception (Python 3.7) the client
\* swallows it (jupiter_api.py:56-58, 89-91) and returns None
cancel_outcome(at, swallowed, request, routes) ==
    IF ~swallowed
    THEN [ pc |-> "cancelled", response |-> None, outcome |-> None ]
    ELSE IF at = "fetching"
    THEN [ pc |-> "done", response |-> Some(fetch_failed_response(request)),
           outcome |-> Some(Raised) ]
    ELSE [ pc |-> "done", response |-> Some(swap_failed_response(request, routes)),
           outcome |-> Some(Raised) ]

\* ------------------------------------------------ jupiter_smart_swap.py
\* JupiterSmartSwap._calculate_*_score: the same formulas, written again
JSS_calculate_efficiency_score(hops, price_impact, platforms, slippage_bps) ==
    hop_score(hops) * 3
    + price_impact_score(price_impact) * 4
    + platform_diversity(platforms, hops) * 2
    + slippage_score(slippage_bps) * 1

JSS_calculate_speed_score(hops, time_to_route, compute_units) ==
    hop_score(hops) * 5 + time_score(time_to_route) * 3
    + compute_score(compute_units) * 2

JSS_calculate_cost_score(price_impact, compute_units, out_amount) ==
    price_impact_score(price_impact) * 6 + compute_score(compute_units) * 3
    + amount_score(out_amount) * 1

\* the criteria branch of analyze_routes (lines 102-110)
JSS_score_by_criteria(a) ==
    IF a.criteria = "efficiency"
    THEN JSS_calculate_efficiency_score(a.hops, a.price_impact, a.platforms, a.slippage_bps)
    ELSE IF a.criteria = "speed"
    THEN JSS_calculate_speed_score(a.hops, a.time_to_route, a.compute_units)
    ELSE IF a.criteria = "cost"
    THEN JSS_calculate_cost_score(a.price_impact, a.compute_units, a.out_amount)
    ELSE JSS_calculate_efficiency_score(a.hops, a.price_impact, a.platforms, a.slippage_bps)

\* list(set(platforms)): the distinct names in an order Python does not
\* fix; every order is a possible outcome
PlatformOrders(platforms) ==
    LET names == Range(platforms)
    IN { o \in SeqsUpTo(names, Cardinality(names)) :
           Len(o) = Cardinality(names) /\ Range(o) = names }

\* lines 91-94: step.get('platform', 'unknown') of every step
JSS_step_platforms(steps) ==
    [ i \in 1..Len(steps) |-> IF HasLabel(steps[i]) THEN Get(steps[i]) ELSE "unknown" ]

\* the order chosen for each raw route of a list
PlatformOrderChoices(raw_routes) ==
    { c \in [ 1..Len(raw_routes) ->
                UNION { PlatformOrders(JSS_step_platforms(raw_routes[i].steps)) :
                          i \in 1..Len(raw_routes) } ] :
        \A i \in 1..Len(raw_routes) :
            c[i] \in PlatformOrders(JSS_step_platforms(raw_routes[i].steps)) }

\* what the criteria branch reads of a raw route (lines 91-100)
JSS_ScoreArgsOf(request, route) ==
    [ criteria |-> request.auto_select_criteria,
      hops |-> Len(route.steps), price_impact |-> route.impact,
      platforms |-> JSS_step_platforms(route.steps),
      slippage_bps |-> request.slippage_bps,
      time_to_route |-> route.timeTaken, compute_units |-> route.computeUnits,
      out_amount |-> route.outAmount ]

\* one iteration of the loop of analyze_routes (lines 88-127); order is
\* the outcome of list(set(platforms))
JSS_analyze_route(route, request, order) ==
    RouteAnalysis(route.routeId, route.outAmount, Len(route.steps), order, route.impact,
                  JSS_score_by_criteria(JSS_ScoreArgsOf(request, route)),
                  route.computeUnits, route.timeTaken)

JSS_analyze_routes_raises(raw_routes, request) ==
    \E i \in 1..Len(raw_routes) : score_raises(JSS_ScoreArgsOf(request, raw_routes[i]))

\* JupiterSmartSwap.analyze_routes
JSS_analyze_routes(raw_routes, request, orders) ==
    SortDescending([ i \in 1..Len(raw_routes) |->
                       JSS_analyze_route(raw_routes[i], request, orders[i]) ])

\* JupiterSmartSwap.get_quote / get_swap_transaction: raise_for_status
\* raises on a status of 400 and above, exceptions are not caught here
JSS_http_raises(outcome) == outcome.kind = "exception" \/ outcome.status >= 400

\* lines 254-259
JSS_exception_response(request) ==
    [ success |-> FALSE, error |-> "Swap processing failed: <exception>",
      mode |-> request.mode ]

\* lines 199-204
JSS_no_routes_response(request) ==
    [ success |-> FALSE, error |-> "No routes found for the given parameters",
      mode |-> request.mode ]

\* lines 224-229
JSS_missing_key_response(request) ==
    [ success |-> FALSE, error |-> "Wallet public key required for auto-swap",
      mode |-> request.mode ]

\* lines 210-220
JSS_analyze_only_response(request, analyzed_routes) ==
    [ success |-> TRUE, mode |-> request.mode, all_routes |-> analyzed_routes,
      total_routes_found |-> Len(analyzed_routes),
      message |-> "Found routes. Analysis complete.",
      best_route |-> analyzed_routes[1] ]

\* lines 210-215 and 247-250
JSS_manual_response(request, analyzed_routes) ==
    [ success |-> TRUE, mode |-> request.mode, all_routes |-> analyzed_routes,
      total_routes_found |-> Len(analyzed_routes),
      message |-> "Found routes. Please select one to execute.",
      top_routes |-> SliceTo(analyzed_routes, 5) ]

\* execute_swap (a mock: it succeeds whatever the transaction); the time
\* of day in transaction_id and timestamp is not modelled
JSS_execute_swap(swap_transaction) ==
    [ success |-> TRUE, transaction_id |-> "txn_<time>",
      message |-> "Swap executed successfully" ]

\* lines 210-215 and 241-245
JSS_auto_swap_response(request, analyzed_routes, swap_result) ==
    [ success |-> TRUE, mode |-> request.mode, all_routes |-> analyzed_routes,
      total_routes_found |-> Len(analyzed_routes),
      selected_route |-> analyzed_routes[1], swap_result |-> swap_result,
      message |-> "Auto-swap completed successfully!" ]

\* the body JupiterSmartSwap.get_swap_transaction posts (wrapUnwrapSOL
\* is not modelled)
JSS_swap_payload(route, request) ==
    [ op |-> "swap", route |-> route, userPublicKey |-> request.user_public_key ]

\* lines 272-277
JSS_manual_swap_response(route, swap_result) ==
    [ success |-> TRUE, route_id |-> route, swap_result |-> swap_result,
      message |-> "Manual swap completed successfully!" ]

\* execute_selected_route up to its return or to the swap request, without
\* the test of the key
JSS_execute_selected_route_no_key_check(route, request) ==
    [ pc |-> "executing", response |-> None,
      calls |-> << JSS_swap_payload(route, request) >> ]

\* execute_selected_route up to its return or to the swap request (lines
\* 265-269); calls are the requests it sends
JSS_execute_selected_route(route, request) ==
    IF key_missing(request)
    THEN [ pc |-> "done", response |-> Some([ error |-> "Wallet public key required" ]),
           calls |-> << >> ]
    ELSE [ pc |-> "executing", response |-> None,
           calls |-> << JSS_swap_payload(route, request) >> ]

\* lines 269-280, from the return of get_swap_transaction
JSS_execute_after_swap(route, outcome) ==
    IF JSS_http_raises(outcome)
    THEN [ error |-> "Manual swap failed: <exception>" ]
    ELSE JSS_manual_swap_response(route, JSS_execute_swap(Get(outcome.body)))

\* JupiterSmartSwap.process_swap_request from the return of get_quote up
\* to its return or to the swap request (lines 196-238)
JSS_process_after_quote(request, outcome, orders) ==
    LET finish(r) == [ pc |-> "done", routes |-> << >>, response |-> Some(r) ]
        data == Get(outcome.body).data
        raw_routes == IF data.tag = "list" THEN data.v ELSE << >>
        analyzed_routes == JSS_analyze_routes(raw_routes, request, orders)
    IN IF JSS_http_raises(outcome)
       THEN finish(JSS_exception_response(request))
       ELSE IF Len(raw_routes) = 0
       THEN finish(JSS_no_routes_response(request))
       ELSE IF JSS_analyze_routes_raises(raw_routes, request)
       THEN finish(JSS_exception_response(request))
       ELSE IF request.mode = "analyze_only"
       THEN [ pc |-> "done", routes |-> analyzed_routes,
              response |-> Some(JSS_analyze_only_response(request, analyzed_routes)) ]
       ELSE IF request.mode = "auto_swap"
       THEN IF key_missing(request)
            THEN [ pc |-> "done", routes |-> analyzed_routes,
                   response |-> Some(JSS_missing_key_response(request)) ]
            ELSE [ pc |-> "executing", routes |-> analyzed_routes, response |-> None ]
       ELSE [ pc |-> "done", routes |-> analyzed_routes,
              response |-> Some(JSS_manual_response(request, analyzed_routes)) ]

\* lines 238-259, from the return of get_swap_transaction
JSS_process_after_swap(request, analyzed_routes, outcome) ==
    IF JSS_http_raises(outcome)
    THEN JSS_exception_response(request)
    ELSE JSS_auto_swap_response(request, analyzed_routes,
                                JSS_execute_swap(Get(outcome.body)))

\* ------------------------------------ route_efficiency_analyzer/utils.py
\* PLATFORM_NAMES.get(platform.lower(), platform.title()) on the names the
\* inputs use
format_platform_name(platform) ==
    IF platform \in { "raydium", "Raydium" } THEN "Raydium"
    ELSE IF platform \in { "orca", "Orca" } THEN "Orca"
    ELSE IF platform = "unknown" THEN "Unknown"
    ELSE platform

\* the display names of the steps, before list(set(...))
format_step_platforms(steps) ==
    [ i \in 1..Len(steps) |->
        format_platform_name(JSS_step_platforms(steps)[i]) ]

\* format_route_summary; order is the outcome of list(set(platforms))
format_route_summary(route_data, order) ==
    [ route_id |-> route_data.routeId, out_amount |-> route_data.outAmount,
      hops |-> Len(route_data.steps), platforms |-> order,
      price_impact |-> route_data.impact, slippage_bps |-> 0,
      compute_units |-> route_data.computeUnits,
      time_to_route |-> route_data.timeTaken ]

\* ---------------------------------------------------------------- inputs
Labels == {"Raydium", "Orca"}

CriteriaStrings == {"efficiency", "speed", "cost", "Efficiency", "fastest"}
KnownCriteria == {"efficiency", "speed", "cost"}
\* price impact as a fraction: 0.001, 0.002, and 2.0 (above the clamp)
ImpactValues == {6, 12, 2 * ONE}
SlippageValues == {50, 10000}
TimeValues == {0, 150}
ComputeValues == {0, 3000, 5000}
AmountValues == {980000, 1000000}

ScoreArgs ==
    [ criteria : CriteriaStrings, hops : 0..MaxSteps, price_impact : ImpactValues,
      platforms : SeqsUpTo(Labels, MaxSteps), slippage_bps : SlippageValues,
      time_to_route : TimeValues, compute_units : ComputeValues,
      out_amount : AmountValues ]

\* arguments of the cost score: impact 0, 0.001, 1.0 and 2.0; amounts from
\* nothing to twice the amount the normalisation divides by
CostArgs ==
    [ price_impact : { 0, 6, ONE, 2 * ONE }, compute_units : ComputeValues,
      out_amount : { 0, 980000, 1000000, 2000000 } ]

\* parsed candidates with price impacts on the float grid: none, the
\* three smallest steps of the grid near 1.0, and 0.5
FloatRoute(id, price_impact) ==
    [ route_id |-> id, hops |-> 1, platforms |-> << "Raydium" >>,
      price_impact |-> price_impact, efficiency_score |-> 0 ]
FloatImpacts == { 0, 16, 32, 96, 2048 }
FloatRouteLists ==
    { << FloatRoute("route_1", a), FloatRoute("route_2", b) >> :
        a \in FloatImpacts, b \in FloatImpacts }
FloatSlippages == { 0, 50, 5000, 10000 }

\* analysed route summaries as rank_routes receives them: the i-th has
\* route_id i, scores are drawn from ScoreValues
ScoreValues == {10, 20, 30}
SummaryLists ==
    UNION { { [i \in 1..n |-> [route_id |-> i, efficiency_score |-> f[i]]] :
                f \in [1..n -> ScoreValues] } : n \in 0..MaxRoutes }
TopNValues == (-2)..(MaxRoutes + 1)

\* requests
Modes == {"analyze_only", "auto_swap", "manual_mode"}
Keys == { None, Some(""), Some("demo_public_key_123") }
Requests(criteria) ==
    [ mode : Modes, auto_select_criteria : criteria, user_public_key : Keys,
      slippage_bps : SlippageValues ]

\* raw candidates the upstream may return: the two demo candidates, one
\* that ties with the first under every policy, a two-hop one, one with no
\* step at all
Candidates ==
    { MockRoute1, MockRoute2,
      Raw("route_3", 1000000, << "Orca" >>, 600, 5000, 150),
      Raw("route_4", 990000, << "Raydium", "Orca" >>, 600, 3000, 100),
      Raw("route_5", 1000000, << >>, 0, 0, 0) }
\* raw candidates for the normalizers: the ones above, one whose two steps
\* are on the same platform, one with a step that has no label, one whose
\* labels differ in case only
RawInputs ==
    Candidates \cup
    { Raw("route_6", 990000, << "Raydium", "Raydium" >>, 600, 3000, 100),
      Unlabelled(Raw("route_7", 990000, << "Orca", "Orca" >>, 600, 3000, 100), 2),
      Raw("route_8", 990000, << "Raydium", "raydium" >>, 600, 3000, 100) }
\* candidates with one malformed key: a numeric key missing, null or not
\* a number, the step list missing or null
NumericKeys == { "outAmount", "priceImpactPct", "computeUnitPriceMicroLamports",
                 "timeTaken" }
MalformedCandidates ==
    { Malformed(MockRoute1, f, a) : f \in NumericKeys, a \in { "missing", "null", "text" } }
    \cup { Malformed(MockRoute1, "routePlan", a) : a \in { "missing", "null" } }
\* a candidate that is null instead of a dict
NotARecord == Malformed(MockRoute2, "route", "null")
\* quote bodies of the backend with a malformed candidate: next to a
\* well-formed one, alone, with a key missing, with a key that is text
MalformedBodies ==
    { Body("list", << MockRoute1, NotARecord >>, FALSE),
      Body("list", << NotARecord >>, FALSE),
      Body("list", << MockRoute2, Malformed(MockRoute1, "outAmount", "missing") >>, FALSE),
      Body("list", << Malformed(MockRoute1, "timeTaken", "text"), MockRoute2 >>, FALSE) }
CandidateLists ==
    { l \in SeqsUpTo(Candidates, MaxRoutes) :
        \A i, j \in 1..Len(l) : i # j => l[i] # l[j] }
Bodies ==
    { Body("absent", << >>, FALSE), Body("absent", << >>, TRUE),
      Body("null", << >>, FALSE) }
    \cup { Body("list", l, FALSE) : l \in CandidateLists }
QuoteOutcomes ==
    { Raised, Answered(500, Body("absent", << >>, TRUE)),
      Answered(500, get_mock_quote_response) }
    \cup { Answered(200, b) : b \in Bodies }
\* what the quote request of the backend may give
RA_QuoteOutcomes == QuoteOutcomes \cup { Answered(200, b) : b \in MalformedBodies }
\* route ids a caller may pass to execute_selected_route: quoted ones and
\* one no quote ever held
RouteIds == { "route_1", "route_2", "route_9" }
SwapOutcomes ==
    { Raised, Answered(500, [error |-> "Internal Server Error"]),
      Answered(200, << >>), Answered(200, [swapTransaction |-> "AQAB"]) }

\* ------------------------------------------------------------------ state
VARIABLES
    call,            \* the pure function invoked, with its arguments
    result,          \* what it returned
    entry,           \* the orchestrator entry point handling the request
    pc,              \* "idle", "fetching", "executing", "done"
    request,         \* the SwapRequest
    use_demo_mode,   \* RouteAnalyzer.use_demo_mode
    quote_response,  \* what the quote call returned
    routes,          \* the ranked routes
    response,        \* what the entry point returned
    calls,           \* the requests issued to the external API, in order
    quote_outcome,   \* how the quote request ended, once it has
    swap_outcome,    \* how the swap request ended, once it has
    route_id,        \* the route_id argument of execute_selected_route
    cancelled,       \* where the task was suspended when it was cancelled
    handler,         \* the API requests being served: each one's locals
    heap             \* the objects the API requests created, by identity

vars == << call, result, entry, pc, request, use_demo_mode, quote_response,
           routes, response, calls, quote_outcome, swap_outcome, route_id,
           cancelled, handler, heap >>
apiVars == << handler, heap >>
pureVars == << call, result >>
orchVars == << entry, pc, request, use_demo_mode, quote_response, routes,
               response, calls, quote_outcome, swap_outcome, route_id,
               cancelled >>

NoCall == [fn |-> "none"]

\* the requests the API serves
Handlers == 1..MaxRequests
\* the locals of an endpoint coroutine and of the analyze_routes it awaits
IdleHandler ==
    [ pc |-> "idle", body |-> None, swap_request |-> None, analyzer |-> None,
      session |-> None, routes |-> None, quote_outcome |-> None,
      swap_outcome |-> None, result |-> None, overlapped |-> FALSE,
      issued_on_closed |-> FALSE ]

Init ==
    /\ call = NoCall
    /\ result = None
    /\ entry = "none"
    /\ pc = "idle"
    /\ request = None
    /\ use_demo_mode = FALSE
    /\ quote_response = None
    /\ routes = << >>
    /\ response = None
    /\ calls = << >>
    /\ quote_outcome = None
    /\ swap_outcome = None
    /\ route_id = None
    /\ cancelled = None
    /\ handler = [ h \in Handlers |-> IdleHandler ]
    /\ heap = << >>

\* the body JupiterAPIClient.get_swap_transaction posts: the whole quote
\* response and the key (wrapUnwrapSOL is always True and is left out)
swap_payload(quote, user_public_key) ==
    [ op |-> "swap", quoteResponse |-> quote, userPublicKey |-> user_public_key ]

QuoteCall(req) == [ op |-> "quote", slippageBps |-> req.slippage_bps ]

\* ---------------------------------------- RouteAnalyzer.analyze_routes
\* demo mode: no suspension, the call runs to its return
RA_Demo ==
    /\ pc = "idle" /\ call = NoCall
    /\ \E req \in Requests(KnownCriteria) :
          LET out == analyze_routes_after_quote(req, TRUE, Some(get_mock_quote_response))
          IN /\ entry' = "RouteAnalyzer"
             /\ request' = Some(req)
             /\ use_demo_mode' = TRUE
             /\ quote_response' = Some(get_mock_quote_response)
             /\ routes' = out.routes
             /\ response' = out.response
             /\ pc' = out.pc
             /\ calls' = calls
    /\ UNCHANGED << quote_outcome, swap_outcome >>
    /\ UNCHANGED << pureVars, route_id, cancelled, apiVars >>

\* live mode: the quote request is issued and the call is suspended in it
RA_Start ==
    /\ pc = "idle" /\ call = NoCall
    /\ \E req \in Requests(KnownCriteria) :
          /\ entry' = "RouteAnalyzer"
          /\ request' = Some(req)
          /\ calls' = Append(calls, QuoteCall(req))
    /\ use_demo_mode' = FALSE
    /\ pc' = "fetching"
    /\ UNCHANGED << quote_response, routes, response, quote_outcome, swap_outcome >>
    /\ UNCHANGED << pureVars, route_id, cancelled, apiVars >>

\* a failed quote request is sent once more
RA_QuoteReturns_retries ==
    /\ pc = "fetching" /\ entry = "RouteAnalyzer"
    /\ \E o \in RA_QuoteOutcomes :
          LET q == get_quote(o)
              out == analyze_routes_after_quote(Get(request), FALSE, q)
              retry == IsNone(q) /\ Len(calls) < 2
          IN /\ quote_outcome' = Some(o)
             /\ quote_response' = q
             /\ routes' = out.routes
             /\ response' = IF retry THEN None ELSE out.response
             /\ pc' = IF retry THEN "fetching" ELSE out.pc
             /\ calls' = IF retry
                         THEN Append(calls, QuoteCall(Get(request)))
                         ELSE IF out.pc = "executing"
                         THEN Append(calls, swap_payload(Get(q),
                                        Get(Get(request).user_public_key)))
                         ELSE calls
    /\ UNCHANGED << entry, request, use_demo_mode, swap_outcome >>
    /\ UNCHANGED << pureVars, route_id, cancelled, apiVars >>

\* the quote call returns; parse, score, rank, dispatch
RA_QuoteReturns ==
    /\ pc = "fetching" /\ entry = "RouteAnalyzer"
    /\ \E o \in RA_QuoteOutcomes :
          LET q == get_quote(o)
              out == analyze_routes_after_quote(Get(request), FALSE, q)
          IN /\ quote_outcome' = Some(o)
             /\ quote_response' = q
             /\ routes' = out.routes
             /\ response' = out.response
             /\ pc' = out.pc
             /\ calls' = IF out.pc = "executing"
                         THEN Append(calls, swap_payload(Get(q),
                                        Get(Get(request).user_public_key)))
                         ELSE calls
    /\ UNCHANGED << entry, request, use_demo_mode, swap_outcome >>
    /\ UNCHANGED << pureVars, route_id, cancelled, apiVars >>

\* the swap call returns
RA_SwapReturns ==
    /\ pc = "executing" /\ entry = "RouteAnalyzer"
    /\ \E o \in SwapOutcomes :
          /\ swap_outcome' = Some(o)
          /\ response' = Some(analyze_routes_after_swap(Get(request), routes,
                                                        get_swap_transaction(o)))
    /\ pc' = "done"
    /\ UNCHANGED << entry, request, use_demo_mode, quote_response, routes, calls,
                    quote_outcome >>
    /\ UNCHANGED << pureVars, route_id, cancelled, apiVars >>

\* the task running analyze_routes is cancelled at its suspension point
RA_Cancel ==
    /\ entry = "RouteAnalyzer" /\ pc \in { "fetching", "executing" }
    /\ cancelled' = Some(pc)
    /\ \E swallowed \in BOOLEAN :
          LET out == cancel_outcome(pc, swallowed, Get(request), routes)
          IN /\ pc' = out.pc
             /\ response' = out.response
             /\ quote_outcome' = IF pc = "fetching" THEN out.outcome ELSE quote_outcome
             /\ swap_outcome' = IF pc = "executing" THEN out.outcome ELSE swap_outcome
    /\ UNCHANGED << entry, request, use_demo_mode, quote_response, routes, calls >>
    /\ UNCHANGED << pureVars, route_id, apiVars >>

\* ------------------------------ JupiterSmartSwap.process_swap_request
\* the call starts and get_quote sends its request
JSS_Start ==
    /\ pc = "idle" /\ call = NoCall
    /\ \E req \in Requests(CriteriaStrings) :
          /\ request' = Some(req)
          /\ calls' = Append(calls, QuoteCall(req))
    /\ entry' = "JupiterSmartSwap"
    /\ pc' = "fetching"
    /\ UNCHANGED << use_demo_mode, quote_response, routes, response, quote_outcome,
                    swap_outcome >>
    /\ UNCHANGED << pureVars, route_id, cancelled, apiVars >>

\* get_quote returns or raises; analyse, dispatch
JSS_QuoteReturns ==
    /\ pc = "fetching" /\ entry = "JupiterSmartSwap"
    /\ \E o \in QuoteOutcomes :
          LET data == Get(o.body).data
              raw_routes == IF ~JSS_http_raises(o) /\ data.tag = "list"
                            THEN data.v ELSE << >>
          IN \E orders \in PlatformOrderChoices(raw_routes) :
                LET out == JSS_process_after_quote(Get(request), o, orders)
                IN /\ quote_outcome' = Some(o)
                   /\ quote_response' = IF JSS_http_raises(o) THEN None ELSE o.body
                   /\ routes' = out.routes
                   /\ response' = out.response
                   /\ pc' = out.pc
                   /\ calls' = IF out.pc = "executing"
                               THEN Append(calls,
                                      JSS_swap_payload(out.routes[1].route_id,
                                                       Get(request)))
                               ELSE calls
    /\ UNCHANGED << entry, request, use_demo_mode, swap_outcome >>
    /\ UNCHANGED << pureVars, route_id, cancelled, apiVars >>

\* get_swap_transaction returns or raises
JSS_SwapReturns ==
    /\ pc = "executing" /\ entry = "JupiterSmartSwap"
    /\ \E o \in SwapOutcomes :
          /\ swap_outcome' = Some(o)
          /\ response' = Some(JSS_process_after_swap(Get(request), routes, o))
    /\ pc' = "done"
    /\ UNCHANGED << entry, request, use_demo_mode, quote_response, routes, calls,
                    quote_outcome >>
    /\ UNCHANGED << pureVars, route_id, cancelled, apiVars >>

\* ------------------------- JupiterSmartSwap.execute_selected_route
\* the call starts: it returns at once without a key, else
\* get_swap_transaction sends its request
JSS_Execute_Start ==
    /\ pc = "idle" /\ call = NoCall
    /\ \E req \in Requests({"efficiency"}), id \in RouteIds :
          LET out == JSS_execute_selected_route(id, req)
          IN /\ request' = Some(req)
             /\ route_id' = Some(id)
             /\ response' = out.response
             /\ pc' = out.pc
             /\ calls' = calls \o out.calls
    /\ entry' = "execute_selected_route"
    /\ UNCHANGED << use_demo_mode, quote_response, routes, quote_outcome,
                    swap_outcome >>
    /\ UNCHANGED << pureVars, cancelled, apiVars >>

\* get_swap_transaction returns or raises
JSS_Execute_SwapReturns ==
    /\ pc = "executing" /\ entry = "execute_selected_route"
    /\ \E o \in SwapOutcomes :
          /\ swap_outcome' = Some(o)
          /\ response' = Some(JSS_execute_after_swap(Get(route_id), o))
    /\ pc' = "done"
    /\ UNCHANGED << entry, request, use_demo_mode, quote_response, routes, calls,
                    quote_outcome, route_id >>
    /\ UNCHANGED << pureVars, cancelled, apiVars >>

\* One invocation of get_score_by_criteria on arguments a.
Call_get_score_by_criteria ==
    /\ call = NoCall /\ pc = "idle"
    /\ UNCHANGED << orchVars, apiVars >>
    /\ \E a \in ScoreArgs :
          /\ call' = [fn |-> "get_score_by_criteria", args |-> a]
          /\ result' = IF score_raises(a)
                       THEN Some([raised |-> TRUE, value |-> 0])
                       ELSE Some([raised |-> FALSE, value |-> get_score_by_criteria(a)])

\* One invocation of calculate_cost_score, of the backend or of
\* JupiterSmartSwap.
Call_calculate_cost_score ==
    /\ call = NoCall /\ pc = "idle"
    /\ UNCHANGED << orchVars, apiVars >>
    /\ \E a \in CostArgs, fn \in { "calculate_cost_score", "JSS_calculate_cost_score" } :
          /\ call' = [fn |-> fn, args |-> a]
          /\ result' = Some([ raised |-> FALSE,
                value |-> IF fn = "calculate_cost_score"
                          THEN calculate_cost_score(a.price_impact, a.compute_units,
                                                    a.out_amount)
                          ELSE JSS_calculate_cost_score(a.price_impact, a.compute_units,
                                                        a.out_amount) ])

\* Scoring and sorting one candidate list under criteria Efficiency, as
\* analyze_routes does, in float arithmetic.
Call_score_and_sort ==
    /\ call = NoCall /\ pc = "idle"
    /\ UNCHANGED << orchVars, apiVars >>
    /\ \E l \in FloatRouteLists, bps \in FloatSlippages :
          /\ call' = [fn |-> "score_and_sort",
                      args |-> [routes |-> l, slippage_bps |-> bps]]
          /\ result' = Some([raised |-> FALSE, value |-> float_rank(l, bps)])

\* One invocation of JupiterAPIClient.parse_routes on a quote body.
Call_parse_routes ==
    /\ call = NoCall /\ pc = "idle"
    /\ UNCHANGED << orchVars, apiVars >>
    /\ \E r \in RawInputs \cup MalformedCandidates :
          LET body == Body("list", << r >>, FALSE)
          IN /\ call' = [fn |-> "parse_routes", args |-> [quote_response |-> body]]
             /\ result' = IF parse_routes_raises(body)
                          THEN Some([raised |-> TRUE, value |-> << >>])
                          ELSE Some([raised |-> FALSE, value |-> parse_routes(body)])

\* One invocation of JupiterSmartSwap.analyze_routes on one raw route.
Call_JSS_analyze_routes ==
    /\ call = NoCall /\ pc = "idle"
    /\ UNCHANGED << orchVars, apiVars >>
    /\ \E r \in RawInputs, req \in Requests({"efficiency"}) :
          \E orders \in PlatformOrderChoices(<< r >>) :
             /\ req.mode = "analyze_only" /\ req.user_public_key = None
             /\ call' = [fn |-> "JSS_analyze_routes",
                          args |-> [routes |-> << r >>, request |-> req]]
             /\ result' = IF JSS_analyze_routes_raises(<< r >>, req)
                          THEN Some([raised |-> TRUE, value |-> << >>])
                          ELSE Some([raised |-> FALSE,
                                     value |-> JSS_analyze_routes(<< r >>, req, orders)])

\* One invocation of format_route_summary.
Call_format_route_summary ==
    /\ call = NoCall /\ pc = "idle"
    /\ UNCHANGED << orchVars, apiVars >>
    /\ \E r \in RawInputs :
          \E order \in PlatformOrders(format_step_platforms(r.steps)) :
             /\ call' = [fn |-> "format_route_summary", args |-> [route_data |-> r]]
             /\ result' = Some([raised |-> FALSE,
                                 value |-> << format_route_summary(r, order) >>])

\* One invocation of rank_routes.
Call_rank_routes ==
    /\ call = NoCall /\ pc = "idle"
    /\ UNCHANGED << orchVars, apiVars >>
    /\ \E l \in SummaryLists :
          /\ call' = [fn |-> "rank_routes", args |-> [analyzed_routes |-> l]]
          /\ result' = Some(rank_routes(l))

\* One invocation of get_top_routes.
Call_get_top_routes ==
    /\ call = NoCall /\ pc = "idle"
    /\ UNCHANGED << orchVars, apiVars >>
    /\ \E l \in SummaryLists, n \in TopNValues :
          /\ call' = [fn |-> "get_top_routes",
                       args |-> [analyzed_routes |-> l, top_n |-> n]]
          /\ result' = Some(get_top_routes(l, n))

Next ==
    \/ Call_get_score_by_criteria
    \/ Call_rank_routes
    \/ Call_get_top_routes
    \/ Call_calculate_cost_score
    \/ Call_score_and_sort
    \/ Call_parse_routes
    \/ Call_JSS_analyze_routes
    \/ Call_format_route_summary
    \/ RA_Demo
    \/ RA_Start
    \/ RA_QuoteReturns
    \/ RA_SwapReturns
    \/ RA_Cancel
    \/ JSS_Start
    \/ JSS_QuoteReturns
    \/ JSS_SwapReturns
    \/ JSS_Execute_Start
    \/ JSS_Execute_SwapReturns

Spec == Init /\ [][Next]_vars


\* ------------------------------------------------ backend/api/routes.py
\* the identity of an object: its class, the request that constructed it,
\* and which of that request's constructions it is
Obj(kind, owner, n) == [ kind |-> kind, owner |-> owner, n |-> n ]

\* one analyzer for every request
new_analyzer_shared(h) == Obj("RouteAnalyzer", 0, 0)
\* analyzer = RouteAnalyzer(...): a new object on every call
new_analyzer(h) == Obj("RouteAnalyzer", h, 0)
\* self.jupiter_client = JupiterAPIClient(), constructed with its analyzer
new_client(analyzer) == Obj("JupiterAPIClient", analyzer.owner, 0)
\* aiohttp.ClientSession() in __aenter__: the n-th session of request h
new_session(h, n) == Obj("ClientSession", h, n)
\* routes = [] in parse_routes
new_routes(h) == Obj("list", h, 0)

\* request h reads or writes object o, leaving it with the given fields;
\* users are the requests that have read or written o
Touch(hp, o, h, fields) ==
    LET before == IF o \in DOMAIN hp THEN hp[o].users ELSE {}
        after == [ fields EXCEPT !.users = before \cup {h} ]
    IN [ x \in DOMAIN hp \cup {o} |-> IF x = o THEN after ELSE hp[x] ]

AnalyzerState(demo, client) ==
    [ use_demo_mode |-> demo, jupiter_client |-> client, users |-> {} ]
ClientState(session) == [ session |-> session, users |-> {} ]
\* closes counts the calls of close()
SessionState(closes) == [ closed |-> closes > 0, closes |-> closes, users |-> {} ]
ListState(items) == [ items |-> items, users |-> {} ]

\* a criteria string that is no member of SelectionCriteria
UnknownCriteria == "fastest"
\* the JSON bodies of the three endpoints; /auto-swap requires the key;
\* the last three carry the unknown criteria
ApiBodies ==
    [ endpoint : { "/analyze", "/manual-swap" }, demo_mode : BOOLEAN,
      auto_select_criteria : { "efficiency" }, user_public_key : { None } ]
    \cup [ endpoint : { "/auto-swap" }, demo_mode : BOOLEAN,
           auto_select_criteria : { "efficiency" },
           user_public_key : { Some(""), Some("demo_public_key_123") } ]
    \cup [ endpoint : { "/analyze", "/manual-swap" }, demo_mode : { TRUE },
           auto_select_criteria : { UnknownCriteria }, user_public_key : { None } ]
    \cup [ endpoint : { "/auto-swap" }, demo_mode : { TRUE },
           auto_select_criteria : { UnknownCriteria },
           user_public_key : { Some("demo_public_key_123") } ]
ApiQuoteOutcomes ==
    { Raised, Answered(200, get_mock_quote_response),
      Answered(200, Body("list", << MockRoute2, MockRoute1 >>, FALSE)) }
ApiSwapOutcomes ==
    { Answered(500, [error |-> "Internal Server Error"]),
      Answered(200, [swapTransaction |-> "AQAB"]) }

\* SelectionCriteria(value): the member with that value, or a ValueError
SelectionCriteria_raises(value) == value \notin KnownCriteria
\* str(e) of that ValueError
SelectionCriteria_error(value) ==
    IF value = UnknownCriteria THEN "'fastest' is not a valid SelectionCriteria"
    ELSE "<not a valid SelectionCriteria>"

\* SwapRequest(...) as each endpoint builds it
swap_request_of(body) ==
    [ mode |-> IF body.endpoint = "/analyze" THEN "analyze_only"
               ELSE IF body.endpoint = "/auto-swap" THEN "auto_swap"
               ELSE "manual_mode",
      auto_select_criteria |-> body.auto_select_criteria,
      user_public_key |-> body.user_public_key,
      slippage_bps |-> 50 ]

\* the detail of an HTTP error: a text as it is, or str(e) of an
\* HTTPException(status_code, detail=text), whose rendering is left to the
\* framework
Detail(text) == [ str_of |-> "text", status_code |-> 0, text |-> text ]
str_HTTPException(status_code, text) ==
    [ str_of |-> "HTTPException", status_code |-> status_code, text |-> text ]

\* what the endpoint answers: the response, or the HTTPException(400) of
\* a failure, which the except clause of the endpoint catches and turns
\* into HTTPException(500, detail=str(e))
endpoint_result(answer) ==
    IF answer.success
    THEN [ status |-> 200, body |-> Some(answer), detail |-> None ]
    ELSE [ status |-> 500, body |-> None,
           detail |-> Some(str_HTTPException(400, answer.error)) ]

\* the endpoint's except clause: HTTPException(500, detail=str(e)), for
\* an exception whose str is its message
endpoint_exception(text) ==
    [ status |-> 500, body |-> None, detail |-> Some(Detail(Some(text))) ]

\* a request is in flight on a session that has been closed: it raises
OnSession(hp, session, outcome) ==
    IF hp[session].closed THEN Raised ELSE outcome

\* __aenter__ of the client of analyzer a, by request h: a new session
aenter(hp, a, h, s) ==
    LET c == hp[a].jupiter_client
    IN Touch(Touch(Touch(hp, a, h, hp[a]), c, h, ClientState(Some(s))),
             s, h, SessionState(0))

\* __aexit__: closes the session the client holds, if it holds one
aexit(hp, a, h) ==
    LET c == hp[a].jupiter_client
        s == Get(hp[c].session)
    IN IF IsNone(hp[c].session)
       THEN Touch(hp, c, h, hp[c])
       ELSE Touch(Touch(hp, c, h, hp[c]), s, h, SessionState(hp[s].closes + 1))

\* some other request is suspended in an external call
OthersInFlight(h) ==
    \E o \in Handlers \ {h} : handler[o].pc \in { "fetching", "executing" }

\* the endpoint is called: it builds the SwapRequest and the analyzer and
\* runs analyze_routes to its return (demo mode) or to the quote request
Api_Receive(h) ==
    /\ handler[h].pc = "idle" /\ pc = "idle" /\ call = NoCall
    /\ \E b \in ApiBodies :
          LET req == swap_request_of(b)
              a == new_analyzer(h)
              c == new_client(a)
              hp1 == Touch(Touch(heap, c, h, ClientState(None)), a, h,
                           AnalyzerState(b.demo_mode, c))
              s == new_session(h, 1)
              out == analyze_routes_after_quote(req, TRUE, Some(get_mock_quote_response))
              mine == [ handler[h] EXCEPT !.body = Some(b), !.swap_request = Some(req),
                                          !.analyzer = Some(a),
                                          !.overlapped = OthersInFlight(h) ]
          IN IF SelectionCriteria_raises(b.auto_select_criteria)
             THEN /\ heap' = heap
                  /\ handler' = [ handler EXCEPT ![h] =
                        [ @ EXCEPT !.pc = "done", !.body = Some(b),
                                   !.overlapped = OthersInFlight(h),
                                   !.result = Some(endpoint_exception(
                                       SelectionCriteria_error(b.auto_select_criteria))) ] ]
             ELSE IF hp1[a].use_demo_mode
             THEN /\ heap' = Touch(hp1, new_routes(h), h, ListState(out.routes))
                  /\ handler' = [ handler EXCEPT ![h] =
                        [ mine EXCEPT !.pc = "done", !.routes = Some(new_routes(h)),
                                      !.result = Some(endpoint_result(Get(out.response))) ] ]
             ELSE /\ heap' = aenter(hp1, a, h, s)
                  /\ handler' = [ handler EXCEPT ![h] =
                        [ mine EXCEPT !.pc = "fetching", !.session = Some(s) ] ]
    /\ UNCHANGED << pureVars, orchVars >>

\* the quote request of request h ends; the session is closed; parse,
\* score, rank, dispatch; an auto-swap opens a session for the swap request
Api_QuoteReturns(h) ==
    /\ handler[h].pc = "fetching"
    /\ \E o \in ApiQuoteOutcomes :
          LET a == Get(handler[h].analyzer)
              req == Get(handler[h].swap_request)
              q == get_quote(OnSession(heap, Get(handler[h].session), o))
              hp1 == aexit(heap, a, h)
              out == analyze_routes_after_quote(req, FALSE, q)
              parsed == ~IsNone(q) /\ Truthy(Get(q)) /\ ~parse_routes_raises(Get(q))
              hp2 == IF parsed
                     THEN Touch(hp1, new_routes(h), h, ListState(out.routes))
                     ELSE hp1
              s == new_session(h, 2)
              mine == [ handler[h] EXCEPT !.quote_outcome = Some(o),
                          !.routes = IF parsed THEN Some(new_routes(h)) ELSE None,
                          !.overlapped = @ \/ OthersInFlight(h) ]
          IN IF out.pc = "executing"
             THEN /\ heap' = aenter(hp2, a, h, s)
                  /\ handler' = [ handler EXCEPT ![h] =
                        [ mine EXCEPT !.pc = "executing", !.session = Some(s) ] ]
             ELSE /\ heap' = hp2
                  /\ handler' = [ handler EXCEPT ![h] =
                        [ mine EXCEPT !.pc = "done",
                                      !.result = Some(endpoint_result(Get(out.response))) ] ]
    /\ UNCHANGED << pureVars, orchVars >>

\* the swap request of request h ends; the session is closed
Api_SwapReturns(h) ==
    /\ handler[h].pc = "executing"
    /\ \E o \in ApiSwapOutcomes :
          LET a == Get(handler[h].analyzer)
              req == Get(handler[h].swap_request)
              l == Get(handler[h].routes)
              t == get_swap_transaction(OnSession(heap, Get(handler[h].session), o))
              hp1 == aexit(heap, a, h)
              r == analyze_routes_after_swap(req, hp1[l].items, t)
          IN /\ heap' = Touch(hp1, l, h, hp1[l])
             /\ handler' = [ handler EXCEPT ![h] =
                   [ @ EXCEPT !.pc = "done", !.swap_outcome = Some(o),
                              !.result = Some(endpoint_result(r)),
                              !.overlapped = @ \/ OthersInFlight(h) ] ]
    /\ UNCHANGED << pureVars, orchVars >>

ApiNext ==
    \/ \E h \in Handlers : Api_Receive(h)
    \/ \E h \in Handlers : Api_QuoteReturns(h)
    \/ \E h \in Handlers : Api_SwapReturns(h)

\* the API serving up to MaxRequests requests at once
ApiSpec == Init /\ [][ApiNext]_vars

\* ------------------- analyze_routes calls on one RouteAnalyzer instance
\* the analyzer (live mode) and its client, which every call uses
SharedAnalyzer == Obj("RouteAnalyzer", 0, 0)
SharedClient == new_client(SharedAnalyzer)
SharedRequests ==
    [ mode : { "analyze_only", "auto_swap" }, auto_select_criteria : { "efficiency" },
      user_public_key : { Some("demo_public_key_123") }, slippage_bps : { 50 } ]

\* call h of analyzer.analyze_routes(request) starts: __aenter__ gives the
\* client a new session and get_quote issues its request on the session
\* the client holds
Shared_Start(h) ==
    /\ handler[h].pc = "idle" /\ pc = "idle" /\ call = NoCall
    /\ \E req \in SharedRequests :
          LET a == SharedAnalyzer
              c == SharedClient
              hp1 == IF a \in DOMAIN heap THEN heap
                     ELSE Touch(Touch(heap, c, h, ClientState(None)), a, h,
                                AnalyzerState(FALSE, c))
              hp2 == aenter(hp1, a, h, new_session(h, 1))
              s == Get(hp2[c].session)
          IN /\ heap' = hp2
             /\ handler' = [ handler EXCEPT ![h] =
                   [ @ EXCEPT !.pc = "fetching", !.swap_request = Some(req),
                              !.analyzer = Some(a), !.session = Some(s),
                              !.overlapped = OthersInFlight(h),
                              !.issued_on_closed = hp2[s].closed ] ]
    /\ UNCHANGED << pureVars, orchVars >>

\* the quote request of call h ends; __aexit__ closes the session the
\* client holds; parse, score, rank, dispatch; an auto-swap enters the
\* client again for the swap request
Shared_QuoteReturns(h) ==
    /\ handler[h].pc = "fetching"
    /\ \E o \in ApiQuoteOutcomes :
          LET a == Get(handler[h].analyzer)
              c == heap[a].jupiter_client
              req == Get(handler[h].swap_request)
              q == get_quote(OnSession(heap, Get(handler[h].session), o))
              hp1 == aexit(heap, a, h)
              out == analyze_routes_after_quote(req, FALSE, q)
              parsed == ~IsNone(q) /\ Truthy(Get(q)) /\ ~parse_routes_raises(Get(q))
              hp2 == IF parsed
                     THEN Touch(hp1, new_routes(h), h, ListState(out.routes))
                     ELSE hp1
              hp3 == aenter(hp2, a, h, new_session(h, 2))
              s == Get(hp3[c].session)
              mine == [ handler[h] EXCEPT !.quote_outcome = Some(o),
                          !.routes = IF parsed THEN Some(new_routes(h)) ELSE None,
                          !.overlapped = @ \/ OthersInFlight(h) ]
          IN IF out.pc = "executing"
             THEN /\ heap' = hp3
                  /\ handler' = [ handler EXCEPT ![h] =
                        [ mine EXCEPT !.pc = "executing", !.session = Some(s),
                                      !.issued_on_closed = @ \/ hp3[s].closed ] ]
             ELSE /\ heap' = hp2
                  /\ handler' = [ handler EXCEPT ![h] =
                        [ mine EXCEPT !.pc = "done", !.result = out.response ] ]
    /\ UNCHANGED << pureVars, orchVars >>

\* the swap request of call h ends; __aexit__ closes the session the
\* client holds
Shared_SwapReturns(h) ==
    /\ handler[h].pc = "executing"
    /\ \E o \in ApiSwapOutcomes :
          LET a == Get(handler[h].analyzer)
              req == Get(handler[h].swap_request)
              l == Get(handler[h].routes)
              t == get_swap_transaction(OnSession(heap, Get(handler[h].session), o))
              hp1 == aexit(heap, a, h)
              r == analyze_routes_after_swap(req, hp1[l].items, t)
          IN /\ heap' = Touch(hp1, l, h, hp1[l])
             /\ handler' = [ handler EXCEPT ![h] =
                   [ @ EXCEPT !.pc = "done", !.swap_outcome = Some(o),
                              !.result = Some(r),
                              !.overlapped = @ \/ OthersInFlight(h) ] ]
    /\ UNCHANGED << pureVars, orchVars >>

SharedNext ==
    \/ \E h \in Handlers : Shared_Start(h)
    \/ \E h \in Handlers : Shared_QuoteReturns(h)
    \/ \E h \in Handlers : Shared_SwapReturns(h)

\* up to MaxRequests calls of analyze_routes at once on one RouteAnalyzer
SharedSpec == Init /\ [][SharedNext]_vars

\* ------------------------------------------------------------ properties
Req == Get(request)
Resp == Get(response)
IsRA == entry = "RouteAnalyzer"
IsJSS == entry = "JupiterSmartSwap"
IsExecute == entry = "execute_selected_route"
Processing == IsRA \/ IsJSS
Returned == pc = "done" /\ entry # "none"
SwapCallIssued == \E i \in 1..Len(calls) : calls[i].op = "swap"
QuoteCallsIssued == Cardinality({ i \in 1..Len(calls) : calls[i].op = "quote" })

\* the request is an auto-swap without a usable signer key
AutoSwapWithoutKey ==
    /\ Processing
    /\ Req.mode = "auto_swap"
    /\ Req.user_public_key \in { << >>, << "" >> }

\* a response field as an Optional, for both response shapes (the
\* SwapResponse dataclass and the dict of JupiterSmartSwap)
Field(r, k) ==
    IF k \notin DOMAIN r THEN << >>
    ELSE IF IsRA THEN r[k] ELSE << r[k] >>

\* the error texts of the two entry points that name the key
KeyErrorTexts ==
    { "Missing user public key", "Wallet public key required for auto-swap" }

\* C1: an auto-swap request without signer key never issues a swap call,
\* and once routes were found and the call returned, the response is a
\* failure whose error text names the key, however many routes there are
C1_MissingKeyFails ==
    AutoSwapWithoutKey =>
        /\ ~SwapCallIssued
        /\ pc # "executing"
        /\ (Returned /\ Len(routes) > 0) =>
              /\ Resp.success = FALSE
              /\ Len(Field(Resp, "error")) = 1
              /\ Field(Resp, "error")[1] \in KeyErrorTexts

C1_Witness ==
    /\ AutoSwapWithoutKey /\ Returned /\ IsJSS
    /\ Len(routes) >= 2
    /\ Req.user_public_key = << "" >>
    /\ Resp.success = FALSE

\* C2: the failure response of an auto-swap request without signer key
\* carries the ranking: all_routes is the ranked list, best_route its head
C2_MissingKeyCarriesRanking ==
    (AutoSwapWithoutKey /\ Returned /\ Len(routes) > 0) =>
        /\ Field(Resp, "all_routes") = << routes >>
        /\ Field(Resp, "best_route") = << routes[1] >>

\* the quote body RouteAnalyzer received holds no candidate: no "data"
\* key, or an empty list
ZeroCandidates ==
    /\ Len(quote_response) = 1
    /\ \/ quote_response[1].data.tag = "absent"
       \/ quote_response[1].data.tag = "list" /\ Len(quote_response[1].data.v) = 0

\* C3: RouteAnalyzer answers a quote without candidates with
\* success = false and total_routes_found = 0, in every mode and criteria
C3_ZeroCandidatesFail ==
    (IsRA /\ pc # "fetching" /\ ZeroCandidates) =>
        /\ Returned
        /\ Resp.success = FALSE
        /\ Resp.total_routes_found = 0

C3_Witness ==
    /\ IsRA /\ Returned /\ ZeroCandidates
    /\ quote_response[1].data.tag = "absent" /\ quote_response[1].other
    /\ Req.mode = "auto_swap" /\ Req.user_public_key = << "demo_public_key_123" >>
    /\ Resp.total_routes_found = 0

\* the quote request failed by transport: it raised, or the status is not 200
QuoteTransportFailed ==
    /\ Len(quote_outcome) = 1
    /\ quote_outcome[1].kind = "exception" \/ quote_outcome[1].status # 200

\* C4: in live mode a transport failure of the quote request ends the
\* call of RouteAnalyzer at once with success = false, a non-empty error,
\* total_routes_found = 0, and no swap call
C4_FetchFailureIsTerminal ==
    (IsRA /\ ~use_demo_mode /\ QuoteTransportFailed) =>
        /\ Returned
        /\ Resp.success = FALSE
        /\ Resp.error \notin { << >>, << "" >> }
        /\ Resp.total_routes_found = 0
        /\ ~SwapCallIssued

C4_Witness ==
    /\ IsRA /\ ~use_demo_mode /\ Returned
    /\ Len(quote_outcome) = 1
    /\ quote_outcome[1].kind = "answer" /\ quote_outcome[1].status = 500
    /\ quote_outcome[1].body[1].data.tag = "list"
    /\ Req.mode = "auto_swap" /\ Req.user_public_key = << "demo_public_key_123" >>
    /\ Resp.success = FALSE

Pos(ids, id) == CHOOSE i \in 1..Len(ids) : ids[i] = id

\* routes that score the same come out in the order the ids came in
KeepsInputOrder(ids, out) ==
    \A i, j \in 1..Len(out) :
        (i < j /\ out[i].efficiency_score = out[j].efficiency_score)
            => Pos(ids, out[i].route_id) < Pos(ids, out[j].route_id)

\* the ids of the candidates of the quote body, in upstream order
QuotedIds ==
    [ i \in 1..Len(quote_response[1].data.v) |-> quote_response[1].data.v[i].routeId ]

\* C6: ranking is stable in rank_routes and in the sorts of both
\* analyze_routes: equal scores keep their relative input order
C6_RankingStable ==
    /\ call.fn = "rank_routes" =>
          KeepsInputOrder([ i \in 1..Len(call.args.analyzed_routes) |->
                              call.args.analyzed_routes[i].route_id ], result[1])
    /\ (Processing /\ Len(routes) > 0) => KeepsInputOrder(QuotedIds, routes)

\* two candidates tie and a lower-scoring one was quoted before them
C6_Witness ==
    /\ IsRA /\ Returned /\ Len(routes) = 3
    /\ routes[1].efficiency_score = routes[2].efficiency_score
    /\ routes[2].efficiency_score > routes[3].efficiency_score
    /\ QuotedIds[1] = routes[3].route_id
    /\ Resp.all_routes = << routes >>

\* C7: get_top_routes returns the first min(n, len) ranked routes and
\* never more, and the empty list for every n <= 0 and for empty input
C7_TopNBounded ==
    call.fn = "get_top_routes" =>
        LET ranked == rank_routes(call.args.analyzed_routes)
            n == call.args.top_n
            m == IF n < Len(ranked) THEN n ELSE Len(ranked)
        IN IF n <= 0 \/ Len(ranked) = 0
           THEN result[1] = << >>
           ELSE result[1] = SubSeq(ranked, 1, m)

\* the fixed-weight combinations of the three policies, in tenths of the
\* fixed-point unit, spelled out from the formulas of the claim
C8_Efficiency(a) ==
    LET h == IF a.hops > 1 THEN a.hops ELSE 1
        impact == IF a.price_impact < ONE THEN a.price_impact ELSE ONE
        names == { a.platforms[i] : i \in 1..Len(a.platforms) }
        ratio == (Cardinality(names) * ONE) \div h
    IN 3 * (ONE \div h) + 4 * (ONE - impact)
       + 2 * (IF ratio < ONE THEN ratio ELSE ONE)
       + 1 * (ONE - (a.slippage_bps * ONE) \div 10000)
C8_Speed(a) ==
    LET h == IF a.hops > 1 THEN a.hops ELSE 1
        t == IF a.time_to_route > 1 THEN a.time_to_route ELSE 1
        cu == IF a.compute_units > 1000 THEN a.compute_units ELSE 1000
    IN 5 * (ONE \div h) + 3 * (ONE \div t) + 2 * ((ONE * 1000) \div cu)
C8_Cost(a) ==
    LET impact == IF a.price_impact < ONE THEN a.price_impact ELSE ONE
        cu == IF a.compute_units > 1000 THEN a.compute_units ELSE 1000
    IN 6 * (ONE - impact) + 3 * ((ONE * 1000) \div cu)
       + 1 * (((a.out_amount \div 1000) * ONE) \div 1000)

\* C8: get_score_by_criteria returns exactly the weighted sum of its policy
C8_WeightedSums ==
    (call.fn = "get_score_by_criteria" /\ call.args.criteria \in KnownCriteria) =>
        /\ ~result[1].raised
        /\ call.args.criteria = "efficiency" => result[1].value = C8_Efficiency(call.args)
        /\ call.args.criteria = "speed" => result[1].value = C8_Speed(call.args)
        /\ call.args.criteria = "cost" => result[1].value = C8_Cost(call.args)

C8_Witness ==
    /\ call.fn = "get_score_by_criteria" /\ call.args.criteria = "efficiency"
    /\ call.args.hops = 2 /\ call.args.platforms = << "Raydium", "Raydium" >>
    /\ call.args.price_impact = 12 /\ call.args.slippage_bps = 50
    /\ result[1].value = 3 * 3000 + 4 * 5988 + 2 * 3000 + 5970

\* C9: a criteria string other than "efficiency", "speed", "cost" scores
\* as Efficiency does, in get_score_by_criteria and in the criteria branch
\* of JupiterSmartSwap.analyze_routes, and raises nothing
C9_UnknownCriteriaIsEfficiency ==
    /\ (call.fn = "get_score_by_criteria" /\ call.args.criteria \notin KnownCriteria) =>
          /\ ~result[1].raised
          /\ result[1].value = C8_Efficiency(call.args)
    /\ ( /\ IsJSS /\ pc \in { "executing", "done" }
         /\ Req.auto_select_criteria \notin KnownCriteria
         /\ Len(quote_response) = 1
         /\ quote_response[1].data.tag = "list"
         /\ Len(quote_response[1].data.v) > 0 ) =>
          /\ Len(routes) = Len(quote_response[1].data.v)
          /\ \A i \in 1..Len(routes) :
                routes[i].efficiency_score =
                    C8_Efficiency([ hops |-> routes[i].hops,
                                    price_impact |-> routes[i].price_impact,
                                    platforms |-> routes[i].platforms,
                                    slippage_bps |-> Req.slippage_bps ])

C9_Witness ==
    /\ IsJSS /\ Returned /\ Req.auto_select_criteria = "Efficiency"
    /\ Len(routes) >= 2
    /\ Resp.success = TRUE

\* C10: scoring with hops = 0 raises no division error and gives, under
\* every policy, the score of the same route with hops = 1
C10_ZeroHopsAsOne ==
    (call.fn = "get_score_by_criteria" /\ call.args.hops = 0) =>
        /\ ~result[1].raised
        /\ ~score_raises([ call.args EXCEPT !.hops = 1 ])
        /\ result[1].value = get_score_by_criteria([ call.args EXCEPT !.hops = 1 ])

C10_Witness ==
    /\ call.fn = "get_score_by_criteria" /\ call.args.hops = 0
    /\ call.args.criteria = "speed" /\ Len(call.args.platforms) = 1
    /\ ~result[1].raised

\* the quote body the entry point received holds at least one candidate,
\* and every candidate is a record with numbers where numbers are expected
CandidatesQuoted ==
    /\ Len(quote_response) = 1
    /\ quote_response[1].data.tag = "list"
    /\ Len(quote_response[1].data.v) > 0
    /\ \A i \in 1..Len(quote_response[1].data.v) :
          quote_response[1].data.v[i].shape.as \notin { "null", "text" }

\* C11: an analyze-only or manual-selection request of RouteAnalyzer that
\* found routes returns success with all_routes the ranking of every
\* quoted candidate and best_route its head, issues no swap call, and its
\* response has neither swap_result nor selected_route
C11_AnalysisDoesNotExecute ==
    ( /\ IsRA /\ pc # "fetching"
      /\ Req.mode \in { "analyze_only", "manual_mode" }
      /\ CandidatesQuoted ) =>
        /\ Returned
        /\ ~SwapCallIssued
        /\ Resp.success = TRUE
        /\ Resp.all_routes = << routes >>
        /\ Len(routes) = Len(QuotedIds)
        /\ { routes[i].route_id : i \in 1..Len(routes) } = Range(QuotedIds)
        /\ Resp.best_route = << routes[1] >>
        /\ Resp.swap_result = None
        /\ Resp.selected_route = None

C11_Witness ==
    /\ IsRA /\ Returned /\ ~use_demo_mode
    /\ Req.mode = "manual_mode" /\ Req.user_public_key = << "demo_public_key_123" >>
    /\ CandidatesQuoted /\ Len(routes) >= 2
    /\ Resp.success = TRUE /\ Resp.selected_route = None

\* the request is an auto-swap with a signer key
AutoSwapWithKey ==
    /\ Processing
    /\ Req.mode = "auto_swap"
    /\ Req.user_public_key \notin { << >>, << "" >> }

\* the swap request was answered 200 with a swap transaction
SwapAnswered ==
    /\ Len(swap_outcome) = 1
    /\ swap_outcome[1].kind = "answer" /\ swap_outcome[1].status = 200
    /\ swap_outcome[1].body # << << >> >>

\* C12: an auto-swap request of RouteAnalyzer with a signer key whose
\* execution succeeds, simulated (demo mode) or real (the swap request is
\* answered with a transaction), returns success with selected_route
\* equal to best_route, the first of all_routes, and a swap_result
C12_AutoSwapSelectsBest ==
    ( /\ IsRA /\ Returned /\ AutoSwapWithKey /\ CandidatesQuoted
      /\ use_demo_mode \/ SwapAnswered ) =>
        /\ Resp.success = TRUE
        /\ Len(Resp.all_routes) = 1 /\ Len(Resp.all_routes[1]) = Len(QuotedIds)
        /\ Resp.best_route = << Resp.all_routes[1][1] >>
        /\ Resp.selected_route = Resp.best_route
        /\ Resp.swap_result # None
        /\ use_demo_mode => Resp.swap_result[1].route_used = Resp.best_route[1].route_id

C12_Witness ==
    /\ IsRA /\ Returned /\ AutoSwapWithKey /\ ~use_demo_mode /\ SwapAnswered
    /\ Len(routes) >= 2
    /\ routes[1].efficiency_score > routes[2].efficiency_score
    /\ Resp.selected_route = << routes[1] >>
    /\ Resp.swap_result = << [swapTransaction |-> "AQAB"] >>

\* the swap request failed: it raised, or the status is not a 2xx
SwapTransportFailed ==
    /\ Len(swap_outcome) = 1
    /\ \/ swap_outcome[1].kind = "exception"
       \/ swap_outcome[1].status < 200
       \/ swap_outcome[1].status >= 300

\* C13: when the swap request of an auto-swap fails, the response of
\* either entry point is a failure that carries the ranking (all_routes
\* and best_route) and has neither swap_result nor selected_route
C13_SwapFailureCarriesRanking ==
    (Processing /\ Returned /\ SwapTransportFailed) =>
        /\ Resp.success = FALSE
        /\ Field(Resp, "all_routes") = << routes >>
        /\ Field(Resp, "best_route") = << routes[1] >>
        /\ Field(Resp, "swap_result") = None
        /\ Field(Resp, "selected_route") = None

\* the swap requests issued so far
SwapCalls == { i \in 1..Len(calls) : calls[i].op = "swap" }

\* the route RouteAnalyzer ranks first for the quote it received when the
\* request asks for criteria c
BestUnder(c) ==
    SortDescending(score_routes([ Req EXCEPT !.auto_select_criteria = c ],
                                parse_routes(quote_response[1])))[1]

\* C14: the swap request of a live auto-swap of RouteAnalyzer is for
\* best_route: had the ranking put another candidate first (another
\* criteria on the same quote), the request sent would differ
C14_SwapRequestIsForBestRoute ==
    (IsRA /\ ~use_demo_mode /\ SwapCallIssued) =>
        \A i \in SwapCalls : \A c \in KnownCriteria :
            BestUnder(c).route_id # routes[1].route_id =>
                swap_payload(quote_response[1], Req.user_public_key[1]) # calls[i]

\* a request is in flight when it was sent and has not ended
QuoteInFlight == QuoteCallsIssued > Len(quote_outcome)
SwapInFlight == Cardinality(SwapCalls) > Len(swap_outcome)

\* C15: one request of RouteAnalyzer sends at most one quote request and
\* at most one swap request, whatever failed; the swap request is sent
\* only after the quote request has returned candidates and they are
\* ranked; the two are never in flight together
C15_CallsAreSequential ==
    IsRA =>
        /\ QuoteCallsIssued <= 1
        /\ Cardinality(SwapCalls) <= 1
        /\ Len(calls) = QuoteCallsIssued + Cardinality(SwapCalls)
        /\ Returned => ~QuoteInFlight /\ ~SwapInFlight
        /\ ~(QuoteInFlight /\ SwapInFlight)
        /\ SwapCallIssued =>
              /\ calls[1].op = "quote" /\ calls[2].op = "swap"
              /\ Len(quote_outcome) = 1 /\ CandidatesQuoted
              /\ Len(routes) = Len(QuotedIds)
              /\ \A i, j \in 1..Len(routes) :
                    i < j => routes[i].efficiency_score >= routes[j].efficiency_score

\* the swap request is in flight after the quote request has returned
C15_Witness ==
    /\ IsRA /\ pc = "executing"
    /\ SwapInFlight /\ ~QuoteInFlight
    /\ Len(calls) = 2 /\ Len(routes) >= 2

\* C16: in every response of RouteAnalyzer.analyze_routes, error is set
\* exactly when success is false
C16_ErrorIffFailure ==
    (IsRA /\ Returned) =>
        /\ Len(response) = 1
        /\ (Resp.error # None) <=> (Resp.success = FALSE)

\* a failure after the ranking: the swap request was answered 200 with an
\* empty object
C16_Witness ==
    /\ IsRA /\ Returned /\ Len(swap_outcome) = 1
    /\ swap_outcome[1].kind = "answer" /\ swap_outcome[1].status = 200
    /\ Resp.success = FALSE
    /\ Resp.error = << "Swap transaction creation failed" >>
    /\ Len(Resp.all_routes) = 1

\* the quote body is malformed: "data" is null, which parse_routes cannot
\* iterate
QuoteMalformed ==
    Len(quote_response) = 1 /\ quote_response[1].data.tag = "null"

\* the swap request did not give a transaction: it failed, or was answered
\* with an empty object
SwapGaveNothing ==
    /\ Len(swap_outcome) = 1
    /\ SwapTransportFailed \/ swap_outcome[1].body = << << >> >>

\* one of the errors of a request: transport, no routes, malformed
\* answer, missing key, failed execution
RequestErred ==
    \/ QuoteTransportFailed
    \/ ZeroCandidates
    \/ QuoteMalformed
    \/ AutoSwapWithoutKey
    \/ SwapGaveNothing

\* C17: every call of RouteAnalyzer.analyze_routes that is not suspended
\* in a request has returned a SwapResponse, and after any error of the
\* request that response has success = false and an error text
C17_ErrorsAreReturned ==
    (IsRA /\ pc \notin { "fetching", "executing", "cancelled" }) =>
        /\ Returned
        /\ Len(response) = 1
        /\ DOMAIN Resp = DOMAIN SwapResponse([ success |-> TRUE ])
        /\ RequestErred => Resp.success = FALSE /\ Len(Resp.error) = 1

C17_Witness ==
    /\ IsRA /\ Returned /\ QuoteMalformed
    /\ Req.mode = "auto_swap"
    /\ Resp.success = FALSE
    /\ Resp.error = << "'NoneType' object is not iterable" >>

\* the request of the worked example on the two demo candidates
WorkedExample ==
    /\ IsRA /\ Returned
    /\ quote_response = << get_mock_quote_response >>
    /\ Req.auto_select_criteria = "efficiency" /\ Req.slippage_bps = 50

\* C18: on the two demo candidates with criteria Efficiency and slippage
\* 50 bps, RouteAnalyzer finds 2 routes, route_1 (impact 0.001) scores
\* 0.9991 and route_2 (impact 0.002) 0.9987 (in tenths of the fixed-point
\* unit: 59946 and 59922), best_route is route_1, and the
\* response is a success unless the request is an auto-swap that lacks
\* its key or whose swap request gave nothing
C18_WorkedExample ==
    WorkedExample =>
        /\ Resp.total_routes_found = 2
        /\ Len(Resp.all_routes) = 1 /\ Len(Resp.all_routes[1]) = 2
        /\ Resp.all_routes[1][1].route_id = "route_1"
        /\ Resp.all_routes[1][1].price_impact = 6
        /\ Resp.all_routes[1][1].efficiency_score = 59946
        /\ Resp.all_routes[1][2].route_id = "route_2"
        /\ Resp.all_routes[1][2].price_impact = 12
        /\ Resp.all_routes[1][2].efficiency_score = 59922
        /\ Resp.all_routes[1][1].efficiency_score > Resp.all_routes[1][2].efficiency_score
        /\ Len(Resp.best_route) = 1 /\ Resp.best_route[1].route_id = "route_1"
        /\ (~AutoSwapWithoutKey /\ ~SwapGaveNothing) => Resp.success = TRUE

C18_Witness ==
    /\ WorkedExample /\ use_demo_mode /\ Req.mode = "analyze_only"
    /\ Resp.success = TRUE /\ Resp.demo_mode = TRUE
    /\ Resp.best_route[1].route_id = "route_1"

\* C19: execute_selected_route with a key sends exactly one swap request,
\* for the route_id it was given, sends no quote request and ranks
\* nothing; without a key it sends nothing and returns an error result;
\* it returns a result whatever the swap request does
C19_ExecuteSelectedRoute ==
    IsExecute =>
        /\ QuoteCallsIssued = 0
        /\ quote_response = None /\ routes = << >>
        /\ pc \in { "executing", "done" }
        /\ pc = "done" => Len(response) = 1
        /\ Req.user_public_key \in { << >>, << "" >> } =>
              /\ calls = << >>
              /\ pc = "done"
              /\ DOMAIN Resp = { "error" }
        /\ Req.user_public_key \notin { << >>, << "" >> } =>
              /\ Len(calls) = 1
              /\ calls[1].op = "swap" /\ calls[1].route = route_id[1]
              /\ (pc = "done" /\ SwapTransportFailed) => DOMAIN Resp = { "error" }
              /\ (pc = "done" /\ ~SwapTransportFailed) =>
                    Resp.success = TRUE /\ Resp.route_id = route_id[1]

C19_Witness ==
    /\ IsExecute /\ Returned
    /\ route_id = << "route_2" >>
    /\ Len(calls) = 1 /\ calls[1].route = "route_2"
    /\ "success" \in DOMAIN Resp /\ Resp.success = TRUE

\* the other case of C19: no key, no request, an error result
C19_NoKeyWitness ==
    /\ IsExecute /\ Returned /\ Req.user_public_key = << >>
    /\ calls = << >> /\ Resp = [ error |-> "Wallet public key required" ]

\* what the endpoint answers to body b when its request runs alone and the
\* upstream answers qo to the quote request and so to the swap request
AloneResponse(b, qo, so) ==
    LET req == swap_request_of(b)
        demo == analyze_routes_after_quote(req, TRUE, Some(get_mock_quote_response))
        live == analyze_routes_after_quote(req, FALSE, get_quote(Get(qo)))
    IN IF b.demo_mode THEN Get(demo.response)
       ELSE IF live.pc = "done" THEN Get(live.response)
       ELSE analyze_routes_after_swap(req, live.routes, get_swap_transaction(Get(so)))
AloneResult(b, qo, so) ==
    IF b.auto_select_criteria \notin KnownCriteria
    THEN [ status |-> 500, body |-> None,
           detail |-> << Detail(<< "'fastest' is not a valid SelectionCriteria" >>) >> ]
    ELSE endpoint_result(AloneResponse(b, qo, so))

\* C20: however the requests served by the API interleave, every object
\* (analyzer, client, session, route list) is read and written by one
\* request only, and each request is answered as it is when run alone
\* against the same upstream answers
C20_RequestsAreIsolated ==
    /\ \A o \in DOMAIN heap : Cardinality(heap[o].users) <= 1
    /\ \A h \in Handlers :
          handler[h].pc = "done" =>
              handler[h].result = << AloneResult(Get(handler[h].body),
                                                 handler[h].quote_outcome,
                                                 handler[h].swap_outcome) >>

\* two requests on different endpoints were in flight together and both
\* have been answered
C20_Witness ==
    /\ handler[1].pc = "done" /\ handler[2].pc = "done"
    /\ handler[1].overlapped /\ handler[2].overlapped
    /\ handler[1].body[1].endpoint = "/auto-swap"
    /\ handler[2].body[1].endpoint = "/analyze"
    /\ handler[1].result[1].status = 200 /\ handler[2].result[1].status = 200
    /\ Cardinality(DOMAIN heap) >= 8

\* C21: once the task of RouteAnalyzer.analyze_routes was cancelled in the
\* quote request, no swap request is ever sent and the quote request is
\* not sent again; once cancelled in the swap request, that request is
\* not sent again
C21_CancelAbandons ==
    (IsRA /\ cancelled # None) =>
        /\ pc \in { "cancelled", "done" }
        /\ QuoteCallsIssued = 1
        /\ cancelled = << "fetching" >> => ~SwapCallIssued /\ Len(calls) = 1
        /\ cancelled = << "executing" >> => Cardinality(SwapCalls) = 1 /\ Len(calls) = 2
        /\ pc = "cancelled" => response = None

\* cancelled in the quote request of an auto-swap that had a key
C21_Witness ==
    /\ IsRA /\ cancelled = << "fetching" >> /\ pc = "cancelled"
    /\ Req.mode = "auto_swap" /\ Req.user_public_key = << "demo_public_key_123" >>
    /\ Len(calls) = 1 /\ response = None

\* the other case of C21: cancelled in the swap request
C21_ExecutingWitness ==
    /\ IsRA /\ cancelled = << "executing" >> /\ pc = "cancelled"
    /\ Len(calls) = 2 /\ calls[2].op = "swap"

\* the raw candidate a normalizer was called on
NormalizerInput ==
    IF call.fn = "parse_routes" THEN call.args.quote_response.data.v[1]
    ELSE IF call.fn = "JSS_analyze_routes" THEN call.args.routes[1]
    ELSE call.args.route_data

\* the platform names of the steps of a raw candidate, "unknown" for a
\* step without a label; format_route_summary gives the labels their
\* display names
NamesOf(route) ==
    { IF route.steps[i] = << >> THEN "unknown"
      ELSE IF call.fn = "format_route_summary"
      THEN format_platform_name(route.steps[i][1])
      ELSE route.steps[i][1] :
        i \in 1..Len(route.steps) }

\* C22: the platforms a normalizer gives a candidate hold no name twice,
\* and hold "unknown" for a step without a label: they are exactly the
\* names of the steps
C22_PlatformsAreASet ==
    ( /\ call.fn \in { "parse_routes", "JSS_analyze_routes", "format_route_summary" }
      /\ NormalizerInput.shape = WellFormed ) =>
        /\ ~result[1].raised
        /\ Len(result[1].value) = 1
        /\ LET platforms == result[1].value[1].platforms
           IN /\ \A i, j \in 1..Len(platforms) : i # j => platforms[i] # platforms[j]
              /\ Range(platforms) = NamesOf(NormalizerInput)

\* the field of a RouteAnalysis that a key of the raw candidate feeds
FedBy(route, key) ==
    IF key = "outAmount" THEN route.out_amount
    ELSE IF key = "priceImpactPct" THEN route.price_impact
    ELSE IF key = "computeUnitPriceMicroLamports" THEN route.compute_units
    ELSE route.time_to_route

\* C23: parse_routes raises nothing for a candidate with a malformed key:
\* it yields a RouteAnalysis with 0 for a numeric key that is missing,
\* null or not a number, and no platform and 0 hops for a step list that
\* is missing
C23_MalformedFieldsDefault ==
    (call.fn = "parse_routes" /\ NormalizerInput.shape # WellFormed) =>
        /\ ~result[1].raised
        /\ Len(result[1].value) = 1
        /\ NormalizerInput.shape.field \in NumericKeys =>
              FedBy(result[1].value[1], NormalizerInput.shape.field) = 0
        /\ NormalizerInput.shape.field = "routePlan" =>
              /\ result[1].value[1].platforms = << >>
              /\ result[1].value[1].hops = 0

\* a candidate that passes shape validation: a record whose values are
\* numbers where numbers are expected
IsValidCandidate(route) == route.shape.as \notin { "null", "text" }
\* the quote of the backend was answered with a list of candidates
ListQuoted ==
    /\ Len(quote_response) = 1
    /\ quote_response[1].data.tag = "list"
ValidQuoted == SelectSeq(quote_response[1].data.v, IsValidCandidate)

\* C24: RouteAnalyzer.analyze_routes drops a candidate that fails shape
\* validation and ranks the others: an analysis whose quote holds a valid
\* candidate succeeds with all_routes exactly the valid candidates, and
\* the "No valid routes found" failure is returned when none is valid
C24_InvalidCandidatesDropped ==
    ( /\ IsRA /\ Returned /\ ~use_demo_mode /\ ListQuoted
      /\ Req.mode \in { "analyze_only", "manual_mode" } ) =>
        IF Len(ValidQuoted) > 0
        THEN /\ Resp.success = TRUE
             /\ Len(Resp.all_routes) = 1
             /\ Len(Resp.all_routes[1]) = Len(ValidQuoted)
             /\ { Resp.all_routes[1][i].route_id : i \in 1..Len(Resp.all_routes[1]) }
                  = { ValidQuoted[i].routeId : i \in 1..Len(ValidQuoted) }
        ELSE /\ Resp.success = FALSE
             /\ Resp.message = "No valid routes found"

\* C25: a request of an endpoint whose auto_select_criteria is none of
\* "efficiency", "speed", "cost" reaches the analyzer and is answered as
\* the same request with criteria "efficiency" is
C25_UnknownCriteriaDefaults ==
    \A h \in Handlers :
        ( /\ handler[h].pc = "done"
          /\ handler[h].body[1].auto_select_criteria \notin KnownCriteria ) =>
            /\ handler[h].swap_request # None
            /\ handler[h].analyzer # None
            /\ handler[h].result =
                  << AloneResult([ handler[h].body[1] EXCEPT
                                      !.auto_select_criteria = "efficiency" ],
                                 handler[h].quote_outcome, handler[h].swap_outcome) >>

\* C26: the cost score lies between 0 and 1 (0 and 10 * ONE in tenths of
\* the fixed-point unit) for every price impact, compute units and output
\* amount that are not negative
C26_CostScoreInUnitInterval ==
    ( /\ call.fn \in { "calculate_cost_score", "JSS_calculate_cost_score" }
      /\ call.args.price_impact >= 0 /\ call.args.compute_units >= 0
      /\ call.args.out_amount >= 0 ) =>
        /\ ~result[1].raised
        /\ result[1].value >= 0
        /\ result[1].value <= 10 * ONE

\* the SwapResponse analyze_routes returned to the endpoint handling h
AnalysisOf(h) ==
    AloneResponse(handler[h].body[1], handler[h].quote_outcome, handler[h].swap_outcome)

\* C27: an endpoint whose analysis returned success = false answers with
\* status 400 and the error of the response as detail; a request handled
\* without an unexpected exception is never answered with status 500
C27_FailureIsA400 ==
    \A h \in Handlers :
        ( /\ handler[h].pc = "done"
          /\ handler[h].body[1].auto_select_criteria \in KnownCriteria ) =>
            /\ handler[h].result[1].status # 500
            /\ ~AnalysisOf(h).success =>
                  /\ handler[h].result[1].status = 400
                  /\ handler[h].result[1].detail = << Detail(AnalysisOf(h).error) >>
            /\ AnalysisOf(h).success => handler[h].result[1].status = 200

RouteIdsOf(l) == [ i \in 1..Len(l) |-> l[i].route_id ]

\* C28: for a fixed candidate list and criteria Efficiency the order of
\* all_routes, and so best_route, is the same for every slippage_bps
\* between 0 and 10000
C28_RankingIgnoresSlippage ==
    call.fn = "score_and_sort" =>
        \A bps \in FloatSlippages :
            RouteIdsOf(float_rank(call.args.routes, bps)) = RouteIdsOf(result[1].value)

Sessions == { o \in DOMAIN heap : o.kind = "ClientSession" }
AllReturned == \A h \in Handlers : handler[h].pc = "done"

\* C29: when calls of analyze_routes overlap on one RouteAnalyzer, every
\* quote or swap request is issued on a session that is open at that
\* moment, and once all calls have returned every session __aenter__
\* opened has been closed exactly once
C29_SharedSessionsAreClosedOnce ==
    /\ \A h \in Handlers : ~handler[h].issued_on_closed
    /\ (AllReturned /\ \E h \in Handlers : handler[h].overlapped) =>
          \A o \in Sessions : heap[o].closes = 1

\* the score of entry e of all_routes for request req, from the entry's
\* own fields
C30_Score(req, e) ==
    LET a == [ hops |-> e.hops, price_impact |-> e.price_impact,
               platforms |-> e.platforms, slippage_bps |-> req.slippage_bps,
               time_to_route |-> e.time_to_route, compute_units |-> e.compute_units,
               out_amount |-> e.out_amount ]
    IN IF req.auto_select_criteria = "speed" THEN C8_Speed(a)
       ELSE IF req.auto_select_criteria = "cost" THEN C8_Cost(a)
       ELSE C8_Efficiency(a)

\* C30: in every response of RouteAnalyzer.analyze_routes that carries
\* all_routes, all_routes has exactly one entry for each raw candidate of
\* the quote, the score of each entry is the scoring function applied to
\* the entry's own fields with the criteria and slippage_bps of the
\* request, and total_routes_found is the length of all_routes
C30_AllRoutesAreTheScoredCandidates ==
    (IsRA /\ Returned /\ Len(Resp.all_routes) = 1) =>
        LET all == Resp.all_routes[1]
            raw == quote_response[1].data.v
        IN /\ Len(all) = Len(raw)
           /\ \A i \in 1..Len(raw) :
                 Cardinality({ j \in 1..Len(all) : all[j].route_id = raw[i].routeId }) = 1
           /\ \A j \in 1..Len(all) : all[j].efficiency_score = C30_Score(Req, all[j])
           /\ Resp.total_routes_found = Len(all)

\* a live request under criteria Cost whose three candidates come out in
\* another order than they were quoted in, with different scores
C30_Witness ==
    /\ IsRA /\ Returned /\ ~use_demo_mode /\ Len(Resp.all_routes) = 1
    /\ Req.auto_select_criteria = "cost"
    /\ Len(Resp.all_routes[1]) = 3
    /\ Resp.all_routes[1][1].route_id # quote_response[1].data.v[1].routeId
    /\ Resp.all_routes[1][1].efficiency_score > Resp.all_routes[1][3].efficiency_score
    /\ Resp.total_routes_found = 3
====
